---- MODULE Spec2Model ----
(***************************************************************************)
(* A model of zffmount: the per-object filesystems of lib/fs/version2.rs   *)
(* (ZffLogicalObjectFs, ZffPhysicalObjectFs), the overlay filesystem        *)
(* (ZffOverlayFs, lib/fs/version2.rs and main.rs) and the single-mount      *)
(* filesystem ZffFs of fs/mod.rs.  The container reader (crate zff) is      *)
(* modelled through the calls the handlers make on it.                      *)
(***************************************************************************)
EXTENDS Integers, Sequences, FiniteSets, TLC

VARIABLES
    cont,     \* logical object: [root: root_dir_filenumbers, files: file number -> file]
    rd,       \* ZffLogicalObjectFs.zffreader: [active: file number, pos: file number -> position]
    last,     \* the request served last and its reply
    held,     \* an earlier watched request and its reply (NoExchange: none yet)
    watch,    \* the requests an observer compares ({}: every request is recorded in last)
    oc,       \* the container and the passwords a ZffOverlayFs is built from
    ov,       \* the ZffOverlayFs: [mounted, objects, undecryptable_objects, inode_attributes_map]
    zc,       \* the container and the passwords a ZffFs is built from
    zf,       \* the ZffFs: [phase, zffreader, shift_value, object_list, inode_reverse_map]
    ph,       \* a ZffPhysicalObjectFs: [revision, image, pos, failed, running]
    mn        \* the process of main.rs: [phase, opened, object_types_map, fs, readers, sessions]

logicalVars == <<cont, rd>>
observerVars == <<last, held, watch>>
overlayVars == <<oc, ov>>
zffFsVars == <<zc, zf>>
physicalVars == <<ph>>
mainVars == <<mn>>
vars == <<cont, rd, last, held, watch, oc, ov, zc, zf, ph, mn>>

----------------------------------------------------------------------------
(* Bounds *)

\* longest content of the regular file whose length varies
MaxLen == 2
\* largest reply capacity (directory entries the kernel buffer accepts)
MaxCap == 3

----------------------------------------------------------------------------
(* Constants of the program *)

SPECIAL_INODE_ROOT_DIR == 1
ZFF_OBJECT_FS_PHYSICAL_ATTR_INO == 2
ZFF_OBJECT_FS_PHYSICAL_ATTR_PERM == 365
ZFF_OBJECT_FS_PHYSICAL_ATTR_NLINKS == 1
DEFAULT_BLOCKSIZE == 512
CURRENT_DIR == "."
PARENT_DIR == ".."
ENOENT == "ENOENT"

----------------------------------------------------------------------------
(* Helpers *)

Min(a, b) == IF a < b THEN a ELSE b
Max(a, b) == IF a < b THEN b ELSE a

Zeros(n) == [i \in 1..n |-> 0]

\* vec![0u8; size] filled from the front with what a read returned
FillBuffer(data, size) == data \o Zeros(size - Len(data))

\* The numbers the model encodes stay below 2^24; a decoded value at or above it
\* (a nonzero byte among the five high ones) is kept as 2^24, which is no file
\* number and no length that any buffer of the model satisfies.
LargeU64 == 256 * 256 * 256

\* u64::encode_directly: eight bytes, little endian
EncodeU64(n) == [i \in 1..8 |-> IF i <= 3 THEN (n \div (256 ^ (i - 1))) % 256 ELSE 0]

\* u64::from_le_bytes of the eight bytes of buf that start at index from
LeValue(buf, from) ==
    IF \E i \in 3..7 : buf[from + i] # 0 THEN LargeU64
    ELSE buf[from] + 256 * buf[from + 1] + 256 * 256 * buf[from + 2]

\* u64::decode_directly on a cursor over buf: fails when fewer than eight bytes are left
DecodeU64(buf) ==
    IF Len(buf) < 8 THEN [ok |-> FALSE, value |-> 0]
    ELSE [ok |-> TRUE, value |-> LeValue(buf, 1)]

RECURSIVE EncodeElements(_)
EncodeElements(s) == IF s = <<>> THEN <<>> ELSE EncodeU64(Head(s)) \o EncodeElements(Tail(s))

\* Vec::<u64>::encode_directly: the length, then the elements
EncodeVecU64(s) == EncodeU64(Len(s)) \o EncodeElements(s)

\* Vec::<u64>::decode_directly: the length, then that many elements, or an error
DecodeVecU64(buf) ==
    LET n == DecodeU64(buf) IN
    IF ~n.ok \/ n.value = LargeU64 \/ Len(buf) < 8 + 8 * n.value
    THEN [ok |-> FALSE, value |-> <<>>]
    ELSE [ok |-> TRUE, value |-> [i \in 1..n.value |-> LeValue(buf, 8 * i + 1)]]

\* !offset on an i64 (bitwise not)
NotI64(x) == -x - 1

----------------------------------------------------------------------------
(* The logical object a ZffLogicalObjectFs serves *)

Bytes(n, first) == [i \in 1..n |-> first + i]

MkFile(t, name, parent, content, n) ==
    [file_type |-> t, filename |-> name, parent |-> parent, content |-> content,
     acquisition_start |-> 10 + n, acquisition_end |-> 20 + n]

\* root: directories "a" (1) and "d" (4); a holds the file "b" (2, of length len) and the
\* hardlink "link" (3) to it; d holds another file "b" (5).
LogicalContainer(len) ==
    [root |-> <<1, 4>>,
     files |-> (1 :> MkFile("Directory", "a", 0, EncodeVecU64(<<2, 3>>), 1)
             @@ 2 :> MkFile("File", "b", 1, Bytes(len, 64), 2)
             @@ 3 :> MkFile("Hardlink", "link", 1, EncodeU64(2), 3)
             @@ 4 :> MkFile("Directory", "d", 0, EncodeVecU64(<<5>>), 4)
             @@ 5 :> MkFile("File", "b", 4, Bytes(1, 96), 5))]

LogicalContainers == {LogicalContainer(len) : len \in 0..MaxLen}

FileNumbers == DOMAIN cont.files

\* fileinformation.length_of_data()
LengthOfData(f) == Len(cont.files[f].content)

----------------------------------------------------------------------------
(* The reader of a logical object (crate zff), as the handlers use it *)

\* zffreader.set_reader_logical_object_file(object_number, filenumber)
SetReaderLogicalObjectFile(r, filenumber) ==
    IF filenumber \in FileNumbers
    THEN [ok |-> TRUE, rd |-> [r EXCEPT !.active = filenumber]]
    ELSE [ok |-> FALSE, rd |-> r]

\* a rewind that leaves the position where the last read ended
RewindForgotten(r) == r

\* zffreader.rewind()
Rewind(r) == [r EXCEPT !.pos[r.active] = 0]

\* zffreader.seek(SeekFrom::Start(offset))
SeekFromStart(r, offset) == [r EXCEPT !.pos[r.active] = offset]

\* zffreader.read(&mut buffer) with a buffer of size bytes, zero-filled before the call
ReadIntoBuffer(r, size) ==
    LET c == cont.files[r.active].content
        p == r.pos[r.active]
        n == Min(size, Max(0, Len(c) - p))
    IN [rd |-> [r EXCEPT !.pos[r.active] = p + n],
        n |-> n,
        buffer |-> FillBuffer(SubSeq(c, p + 1, p + n), size)]

----------------------------------------------------------------------------
(* Replies and requests *)

ErrorReply(errno) == [kind |-> "error", val |-> errno]
EntryReply(attr) == [kind |-> "entry", val |-> attr]
AttrReply(attr) == [kind |-> "attr", val |-> attr]
DataReply(bytes) == [kind |-> "data", val |-> bytes]
DirReply(entries) == [kind |-> "dir", val |-> entries]
NoReply == [kind |-> "none", val |-> ENOENT]

Request(op, ino, name, offset, size, cap) ==
    [op |-> op, ino |-> ino, name |-> name, offset |-> offset, size |-> size, cap |-> cap]

NoRequest == Request("none", 0, "", 0, 0, 0)
NoExchange == [req |-> NoRequest, rep |-> NoReply, n |-> 0]

\* What the observer keeps of a served request.  With nothing under watch every
\* request is recorded in last; otherwise only the watched ones are, the first of
\* them also in held, and n counts them (up to 2).
Observe(req, rep) ==
    IF watch = {}
    THEN /\ last' = [req |-> req, rep |-> rep, n |-> 0]
         /\ UNCHANGED <<held, watch>>
    ELSE IF req \in watch
         THEN /\ last' = [req |-> req, rep |-> rep, n |-> Min(last.n + 1, 2)]
              /\ held' = IF held = NoExchange THEN [req |-> req, rep |-> rep, n |-> 1] ELSE held
              /\ UNCHANGED watch
         ELSE UNCHANGED <<last, held, watch>>

\* FileAttr, without uid and gid (the effective ids of the caller)
FileAttr(ino, size, blocks, atime, crtime, kind, perm, nlink) ==
    [ino |-> ino, size |-> size, blocks |-> blocks,
     atime |-> atime, mtime |-> atime, ctime |-> atime, crtime |-> crtime,
     kind |-> kind, perm |-> perm, nlink |-> nlink,
     rdev |-> 0, flags |-> 0, blksize |-> DEFAULT_BLOCKSIZE]

NoAttr == FileAttr(0, 0, 0, 0, 0, "none", 0, 0)

\* for (index, entry) in entries.into_iter().skip(offset).enumerate():
\*     if reply.add(inode, offset + index + 1, ..) { break }
\* the kernel buffer takes cap entries; each delivered entry carries its next offset
AddEntries(entries, offset, cap) ==
    LET rest == SubSeq(entries, offset + 1, Len(entries))
        k == Min(cap, Len(rest))
    IN [i \in 1..k |-> [ino |-> rest[i].ino, kind |-> rest[i].kind, name |-> rest[i].name,
                        next |-> offset + (i - 1) + 1]]

DirEntry(ino, kind, name) == [ino |-> ino, kind |-> kind, name |-> name]

----------------------------------------------------------------------------
(* ZffLogicalObjectFs (lib/fs/version2.rs) *)

\* ZffLogicalObjectFs::new: object_file_attr (the acquisition times are the object's)
LogicalObjectFileAttr ==
    FileAttr(SPECIAL_INODE_ROOT_DIR, 0, 0, 20, 10, "Directory", 511,
             ZFF_OBJECT_FS_PHYSICAL_ATTR_NLINKS)

\* file_attr: the hardlink branch, which reads the payload and decodes the target
FileAttrHardlinkTarget(r, size) ==
    LET got == ReadIntoBuffer(Rewind(r), size)
        dec == DecodeU64(got.buffer)
    IN [ok |-> dec.ok, rd |-> got.rd, filenumber |-> dec.value]

\* the kind file_attr and readdir give a file type
LogicalKind(file_type) ==
    CASE file_type = "File" -> "RegularFile"
      [] file_type = "Directory" -> "Directory"
      [] file_type = "Symlink" -> "Symlink"
      [] file_type = "Hardlink" -> "RegularFile"
      [] OTHER -> "unimplemented"

\* ZffLogicalObjectFs::file_attr
LogicalFileAttr(r, filenumber) ==
    LET s == SetReaderLogicalObjectFile(r, filenumber) IN
    IF ~s.ok THEN [ok |-> FALSE, rd |-> s.rd, attr |-> NoAttr]
    ELSE
        LET fi == cont.files[filenumber]
            size == Len(fi.content)
            hl == IF fi.file_type = "Hardlink"
                  THEN FileAttrHardlinkTarget(s.rd, size)
                  ELSE [ok |-> TRUE, rd |-> s.rd, filenumber |-> filenumber]
            kind == LogicalKind(fi.file_type)
        IN IF ~hl.ok \/ kind = "unimplemented"
           THEN [ok |-> FALSE, rd |-> hl.rd, attr |-> NoAttr]
           ELSE [ok |-> TRUE, rd |-> hl.rd,
                 attr |-> FileAttr(hl.filenumber + 1, size, (size \div DEFAULT_BLOCKSIZE) + 1,
                                   fi.acquisition_end, fi.acquisition_start, kind,
                                   ZFF_OBJECT_FS_PHYSICAL_ATTR_PERM,
                                   ZFF_OBJECT_FS_PHYSICAL_ATTR_NLINKS)]

\* lookup and readdir: the children of a directory other than the root, decoded from
\* the payload of file ino-1
DirectoryChildren(r, ino) ==
    LET s == SetReaderLogicalObjectFile(r, ino - 1) IN
    IF ~s.ok THEN [ok |-> FALSE, rd |-> s.rd, childs |-> <<>>]
    ELSE
        LET got == ReadIntoBuffer(Rewind(s.rd), LengthOfData(ino - 1))
            dec == DecodeVecU64(got.buffer)
        IN [ok |-> dec.ok, rd |-> got.rd, childs |-> dec.value]

\* a lookup that searches the root directory whatever the parent is
LookupChildrenOfRoot(r, parent) == [ok |-> TRUE, rd |-> r, childs |-> cont.root]

\* lookup: the directory whose children are searched
LookupChildren(r, parent) ==
    IF parent = SPECIAL_INODE_ROOT_DIR
    THEN [ok |-> TRUE, rd |-> r, childs |-> cont.root]
    ELSE DirectoryChildren(r, parent)

\* lookup: for filenumber in childs { .. }
RECURSIVE LookupLoop(_, _, _)
LookupLoop(r, childs, name) ==
    IF childs = <<>> THEN [rd |-> r, reply |-> ErrorReply(ENOENT)]
    ELSE
        LET s == SetReaderLogicalObjectFile(r, Head(childs)) IN
        IF ~s.ok THEN [rd |-> s.rd, reply |-> ErrorReply(ENOENT)]
        ELSE IF name = cont.files[Head(childs)].filename
             THEN LET fa == LogicalFileAttr(s.rd, Head(childs))
                  IN [rd |-> fa.rd,
                      reply |-> IF fa.ok THEN EntryReply(fa.attr) ELSE ErrorReply(ENOENT)]
             ELSE LookupLoop(s.rd, Tail(childs), name)

\* ZffLogicalObjectFs::lookup
LogicalLookup(r, parent, name) ==
    LET c == LookupChildren(r, parent) IN
    IF ~c.ok THEN [rd |-> c.rd, reply |-> ErrorReply(ENOENT)]
    ELSE LookupLoop(c.rd, c.childs, name)

\* ZffLogicalObjectFs::getattr
LogicalGetattr(r, ino) ==
    IF ino = SPECIAL_INODE_ROOT_DIR
    THEN [rd |-> r, reply |-> AttrReply(LogicalObjectFileAttr)]
    ELSE LET fa == LogicalFileAttr(r, ino - 1)
         IN [rd |-> fa.rd, reply |-> IF fa.ok THEN AttrReply(fa.attr) ELSE ErrorReply(ENOENT)]

\* readdir: for child_filenumber in childs { .. entries.push(..) }
RECURSIVE ReaddirLoop(_, _, _)
ReaddirLoop(r, childs, entries) ==
    IF childs = <<>> THEN [ok |-> TRUE, rd |-> r, entries |-> entries]
    ELSE
        LET s == SetReaderLogicalObjectFile(r, Head(childs)) IN
        IF ~s.ok THEN [ok |-> FALSE, rd |-> s.rd, entries |-> entries]
        ELSE
            LET fi == cont.files[Head(childs)]
                kind == LogicalKind(fi.file_type)
            IN IF kind = "unimplemented" THEN [ok |-> FALSE, rd |-> s.rd, entries |-> entries]
               ELSE ReaddirLoop(s.rd, Tail(childs),
                                Append(entries, DirEntry(Head(childs) + 1, kind, fi.filename)))

\* readdir: the entries "." and ".." of a directory other than the root
ReaddirDotEntries(ino) ==
    <<DirEntry(ino, "Directory", CURRENT_DIR),
      DirEntry(cont.files[ino - 1].parent + 1, "Directory", PARENT_DIR)>>

\* ZffLogicalObjectFs::readdir
LogicalReaddir(r, ino, offset, cap) ==
    LET c == IF ino = SPECIAL_INODE_ROOT_DIR
             THEN [ok |-> TRUE, rd |-> r, childs |-> cont.root]
             ELSE DirectoryChildren(r, ino)
        dots == IF ino = SPECIAL_INODE_ROOT_DIR
                THEN <<DirEntry(SPECIAL_INODE_ROOT_DIR, "Directory", CURRENT_DIR),
                       DirEntry(SPECIAL_INODE_ROOT_DIR, "Directory", PARENT_DIR)>>
                ELSE IF ino - 1 \in FileNumbers THEN ReaddirDotEntries(ino) ELSE <<>>
    IN IF ~c.ok THEN [rd |-> c.rd, reply |-> ErrorReply(ENOENT)]
       ELSE LET l == ReaddirLoop(c.rd, c.childs, dots)
            IN [rd |-> l.rd,
                reply |-> IF l.ok THEN DirReply(AddEntries(l.entries, offset, cap))
                          ELSE ErrorReply(ENOENT)]

\* a read that leaves the hardlink itself active
ReadKeepsHardlinkActive(r, size) == [ok |-> TRUE, rd |-> r]

\* read: the hardlink branch, which decodes the target and makes it the active file
ReadResolveHardlink(r, size) ==
    LET got == ReadIntoBuffer(Rewind(r), size)
        dec == DecodeU64(got.buffer)
    IN IF ~dec.ok THEN [ok |-> FALSE, rd |-> got.rd]
       ELSE SetReaderLogicalObjectFile(got.rd, dec.value)

\* read: reply.data(&buffer) after zffreader.read(&mut buffer)
ReadReplyData(got) == DataReply(got.buffer)

\* ZffLogicalObjectFs::read
LogicalRead(r, ino, offset, size) ==
    IF NotI64(offset) >= 0 THEN [rd |-> r, reply |-> ErrorReply(ENOENT)]
    ELSE
        LET s == SetReaderLogicalObjectFile(r, ino - 1) IN
        IF ~s.ok THEN [rd |-> s.rd, reply |-> ErrorReply(ENOENT)]
        ELSE
            LET fi == cont.files[ino - 1]
                h == IF fi.file_type = "Hardlink"
                     THEN ReadResolveHardlink(s.rd, Len(fi.content))
                     ELSE [ok |-> TRUE, rd |-> s.rd]
            IN IF ~h.ok THEN [rd |-> h.rd, reply |-> ErrorReply(ENOENT)]
               ELSE LET got == ReadIntoBuffer(SeekFromStart(h.rd, offset), size)
                    IN [rd |-> got.rd, reply |-> ReadReplyData(got)]

----------------------------------------------------------------------------
(* Requests to a mounted ZffLogicalObjectFs *)

\* the inodes of the object: the root, the five files and one that no file has
LogicalInodes == 1..(Cardinality(FileNumbers) + 2)
\* the root, the directories a and d, and the regular file b of a
LookupParents == {1, 2, 5, 3}
LogicalNames == {"a", "b", "link", "zz"}
ReaddirInodes == {1, 2, 5, 7}
\* the file b of a, the hardlink to it, and an inode that no file has
ReadInodes == {3, 4, 7}
ReadOffsets == (-1)..(MaxLen + 1)
\* a read of one byte and a read longer than any content
ReadSizes == {1, MaxLen + 1}
ReaddirOffsets == 0..1
Caps == {1, MaxCap}

LookupRequest(parent, name) ==
    /\ LET res == LogicalLookup(rd, parent, name) IN
         /\ rd' = res.rd
         /\ Observe(Request("lookup", parent, name, 0, 0, 0), res.reply)
    /\ UNCHANGED <<cont, overlayVars, zffFsVars, physicalVars, mainVars>>

GetattrRequest(ino) ==
    /\ LET res == LogicalGetattr(rd, ino) IN
         /\ rd' = res.rd
         /\ Observe(Request("getattr", ino, "", 0, 0, 0), res.reply)
    /\ UNCHANGED <<cont, overlayVars, zffFsVars, physicalVars, mainVars>>

ReaddirRequest(ino, offset, cap) ==
    /\ LET res == LogicalReaddir(rd, ino, offset, cap) IN
         /\ rd' = res.rd
         /\ Observe(Request("readdir", ino, "", offset, 0, cap), res.reply)
    /\ UNCHANGED <<cont, overlayVars, zffFsVars, physicalVars, mainVars>>

ReadRequest(ino, offset, size) ==
    /\ LET res == LogicalRead(rd, ino, offset, size) IN
         /\ rd' = res.rd
         /\ Observe(Request("read", ino, "", offset, size, 0), res.reply)
    /\ UNCHANGED <<cont, overlayVars, zffFsVars, physicalVars, mainVars>>

\* the reader after ZffLogicalObjectFs::new: the first root file is active
\* CURRENT_DIR and PARENT_DIR as the sequences of their characters
CurrentDirName == <<".">>
ParentDirName == <<".", ".">>

\* no ZffFs has been built
NoZffReader ==
    [initialized |-> {}, decrypted |-> {}, active_object |-> 0, active_file |-> <<>>,
     pos |-> <<>>, trace |-> <<>>]
NoZffContainer ==
    [present |-> {}, enc_kind |-> "Physical", passwords |-> {}, fault |-> "none", special |-> {},
     hardlink |-> 3, objects |-> <<>>]
NoZffFs ==
    [phase |-> "start", zffreader |-> NoZffReader, shift_value |-> 0, object_list |-> <<>>,
     inode_reverse_map |-> <<>>]

\* main of main.rs has not run
NoMain ==
    [phase |-> "none", opened |-> 0, object_types_map |-> <<>>, fs |-> <<>>, readers |-> <<>>,
     sessions |-> 0]

\* no ZffPhysicalObjectFs has been built
NoPhysical == [revision |-> "version2", image |-> <<>>, pos |-> 0, failed |-> {}, running |-> TRUE]

\* no ZffOverlayFs has been built
NoOverlayContainer ==
    [present |-> {}, passwords |-> {}, object_numbers |-> <<>>, iter |-> <<>>]

NoOverlay ==
    [mounted |-> FALSE, objects |-> <<>>, undecryptable_objects |-> {},
     inode_attributes_map |-> <<>>]

InitialReader(c) == [active |-> Head(c.root), pos |-> [f \in DOMAIN c.files |-> 0]]

InitLogical ==
    /\ cont \in LogicalContainers
    /\ rd = InitialReader(cont)
    /\ last = NoExchange
    /\ held = NoExchange
    /\ watch = {}
    /\ oc = NoOverlayContainer
    /\ ov = NoOverlay
    /\ zc = NoZffContainer
    /\ zf = NoZffFs
    /\ ph = NoPhysical
    /\ mn = NoMain

NextLogical ==
    \/ \E parent \in LookupParents, name \in LogicalNames : LookupRequest(parent, name)
    \/ \E ino \in LogicalInodes : GetattrRequest(ino)
    \/ \E ino \in ReaddirInodes, offset \in ReaddirOffsets, cap \in Caps :
           ReaddirRequest(ino, offset, cap)
    \/ \E ino \in ReadInodes, offset \in ReadOffsets, size \in ReadSizes :
           ReadRequest(ino, offset, size)

SpecLogical == InitLogical /\ [][NextLogical]_vars

\* The same session with an observer that compares two requests of a run: held is
\* the first served request of watch, last the latest one, and any other request
\* may be served before, between and after them.
WatchSets ==
    {{Request("lookup", parent, name, 0, 0, 0)} :
        parent \in LookupParents, name \in LogicalNames}
    \cup {{Request("read", 4, "", offset, size, 0), Request("read", 3, "", offset, size, 0)} :
        offset \in ReadOffsets, size \in ReadSizes}
    \cup {{Request("lookup", 2, "link", 0, 0, 0), Request("lookup", 2, "b", 0, 0, 0)}}

InitLogicalPair ==
    /\ cont \in LogicalContainers
    /\ rd = InitialReader(cont)
    /\ last = NoExchange
    /\ held = NoExchange
    /\ watch \in WatchSets
    /\ oc = NoOverlayContainer
    /\ ov = NoOverlay
    /\ zc = NoZffContainer
    /\ zf = NoZffFs
    /\ ph = NoPhysical
    /\ mn = NoMain

SpecLogicalPair == InitLogicalPair /\ [][NextLogical]_vars

----------------------------------------------------------------------------
(* ZffOverlayFs (lib/fs/version2.rs; main.rs holds the same handlers) *)

OBJECT_PREFIX == <<"o", "b", "j", "e", "c", "t", "_">>

\* a name as the sequence of its characters
ObjectName(digits) == OBJECT_PREFIX \o digits

\* DEFAULT_ROOT_DIR_ATTR
DEFAULT_ROOT_DIR_ATTR == FileAttr(SPECIAL_INODE_ROOT_DIR, 0, 0, 0, 0, "Directory", 493, 2)

\* the inode ZffOverlayFs::new gives the first object
FirstObjectInode == 12

\* The objects of the container: 7 is a physical object, 5 a logical object that is
\* encrypted with the password "pw5".
OverlayObject(n) ==
    IF n = 5 THEN [kind |-> "Logical", encrypted |-> TRUE, password |-> "pw5"]
    ELSE [kind |-> "Physical", encrypted |-> FALSE, password |-> ""]

Orders(S) == {s \in [1..Cardinality(S) -> S] : \A i, j \in 1..Cardinality(S) : s[i] = s[j] => i = j}

\* object_numbers is the order in which the reader lists the numbers, iter the order in
\* which the HashMap objects is iterated
OverlayContainers ==
    {[present |-> present, passwords |-> passwords, object_numbers |-> numbers, iter |-> iter] :
        present \in SUBSET {5, 7},
        passwords \in {{}, {"pw5"}, {"bad"}, {"bad", "pw5"}},
        numbers \in UNION {Orders(S) : S \in SUBSET {5, 7}},
        iter \in UNION {Orders(S) : S \in SUBSET {5, 7}}}

WellFormedOverlayContainer(c) ==
    /\ {c.object_numbers[i] : i \in DOMAIN c.object_numbers} = c.present
    /\ {c.iter[i] : i \in DOMAIN c.iter} = c.present
    /\ Len(c.object_numbers) = Cardinality(c.present)
    /\ Len(c.iter) = Cardinality(c.present)

\* new: the encrypted objects that none of the passwords decrypts
Undecryptable(c) ==
    {n \in c.present : OverlayObject(n).encrypted /\ OverlayObject(n).password \notin c.passwords}

\* new: the attributes of the directory of the i-th object number
ObjectDirAttr(c, i) ==
    FileAttr(FirstObjectInode + (i - 1), 0, 0, 20 + c.object_numbers[i], 10 + c.object_numbers[i],
             "Directory", 493, 2)

\* new: for object_number in object_numbers { objects.insert(..); current_inode += 1 }
ObjectsOfNumbers(c) ==
    [n \in c.present |-> ObjectDirAttr(c, CHOOSE i \in DOMAIN c.object_numbers : c.object_numbers[i] = n)]

\* ZffOverlayFs::new
OverlayFsNew(c) ==
    [mounted |-> TRUE,
     objects |-> ObjectsOfNumbers(c),
     undecryptable_objects |-> Undecryptable(c),
     inode_attributes_map |->
        [ino \in {FirstObjectInode + (i - 1) : i \in DOMAIN c.object_numbers} |->
            ObjectDirAttr(c, ino - FirstObjectInode + 1)]]

Digits == {"0", "1", "2", "3", "4", "5", "6", "7", "8", "9"}

DigitValue(c) ==
    CASE c = "0" -> 0 [] c = "1" -> 1 [] c = "2" -> 2 [] c = "3" -> 3 [] c = "4" -> 4
      [] c = "5" -> 5 [] c = "6" -> 6 [] c = "7" -> 7 [] c = "8" -> 8 [] c = "9" -> 9

RECURSIVE DecimalValue(_)
DecimalValue(s) ==
    IF s = <<>> THEN 0
    ELSE DecimalValue(SubSeq(s, 1, Len(s) - 1)) * 10 + DigitValue(s[Len(s)])

\* the decimal digits of a number below 100
Decimal(n) ==
    LET d(k) == CHOOSE c \in Digits : DigitValue(c) = k
    IN IF n < 10 THEN <<d(n)>> ELSE <<d(n \div 10), d(n % 10)>>

\* str::parse::<u64>: an optional "+", then one or more digits (the names of the
\* model hold too few digits to overflow)
ParseU64(s) ==
    LET body == IF s # <<>> /\ s[1] = "+" THEN Tail(s) ELSE s IN
    IF body = <<>> \/ \E i \in DOMAIN body : body[i] \notin Digits
    THEN [ok |-> FALSE, value |-> 0]
    ELSE [ok |-> TRUE, value |-> DecimalValue(body)]

\* name.rsplit(OBJECT_PREFIX).next(): what follows the last occurrence of the prefix,
\* the whole name when the prefix does not occur; never None
RsplitNext(name) ==
    LET k == Len(OBJECT_PREFIX)
        starts == {i \in 1..Len(name) : i + k - 1 <= Len(name) /\ SubSeq(name, i, i + k - 1) = OBJECT_PREFIX}
    IN IF starts = {} THEN [some |-> TRUE, item |-> name]
       ELSE LET i == CHOOSE m \in starts : \A j \in starts : j <= m
            IN [some |-> TRUE, item |-> SubSeq(name, i + k, Len(name))]

\* ZffOverlayFs::lookup
OverlayLookup(o, parent, name) ==
    IF parent = SPECIAL_INODE_ROOT_DIR
    THEN LET split == RsplitNext(name)
             parsed == ParseU64(split.item)
         IN IF ~split.some \/ ~parsed.ok THEN ErrorReply(ENOENT)
            ELSE IF parsed.value \notin DOMAIN o.objects THEN ErrorReply(ENOENT)
            ELSE EntryReply(o.objects[parsed.value])
    ELSE ErrorReply(ENOENT)

\* a getattr that knows only the inodes of the map
OverlayGetattrOfMapOnly(o, ino) ==
    IF ino \in DOMAIN o.inode_attributes_map THEN AttrReply(o.inode_attributes_map[ino])
    ELSE ErrorReply(ENOENT)

\* ZffOverlayFs::getattr
OverlayGetattr(o, ino) ==
    IF ino \in DOMAIN o.inode_attributes_map THEN AttrReply(o.inode_attributes_map[ino])
    ELSE IF ino = SPECIAL_INODE_ROOT_DIR THEN AttrReply(DEFAULT_ROOT_DIR_ATTR)
    ELSE ErrorReply(ENOENT)

\* ZffOverlayFs::readdir
OverlayReaddir(o, c, ino, offset, cap) ==
    IF ino # SPECIAL_INODE_ROOT_DIR THEN ErrorReply(ENOENT)
    ELSE DirReply(AddEntries(
            <<DirEntry(SPECIAL_INODE_ROOT_DIR, "Directory", CurrentDirName),
              DirEntry(SPECIAL_INODE_ROOT_DIR, "Directory", ParentDirName)>>
            \o [i \in DOMAIN c.iter |->
                  DirEntry(o.objects[c.iter[i]].ino, "Directory", ObjectName(Decimal(c.iter[i])))],
            offset, cap))

----------------------------------------------------------------------------
(* Requests to a ZffOverlayFs *)

OverlayNames ==
    {ObjectName(<<"7">>), ObjectName(<<"5">>), ObjectName(<<"9">>), <<"7">>, <<"5">>,
     <<"x">> \o ObjectName(<<"7">>), OBJECT_PREFIX, ObjectName(<<"x">>),
     ObjectName(<<"7", "x">>), ObjectName(<<"+", "7">>), ObjectName(<<"0", "7">>),
     OBJECT_PREFIX \o ObjectName(<<"5">>), <<".", "T", "r", "a", "s", "h">>, <<>>}

OverlayInodes == {1, 2, 6, 8, FirstObjectInode, FirstObjectInode + 1, FirstObjectInode + 2}
OverlayOffsets == 0..MaxCap

OverlayMount ==
    /\ ~ov.mounted
    /\ ov' = OverlayFsNew(oc)
    /\ UNCHANGED <<oc, logicalVars, observerVars, zffFsVars, physicalVars, mainVars>>

OverlayLookupRequest(parent, name) ==
    /\ ov.mounted
    /\ Observe(Request("lookup", parent, name, 0, 0, 0), OverlayLookup(ov, parent, name))
    /\ UNCHANGED <<overlayVars, logicalVars, zffFsVars, physicalVars, mainVars>>

OverlayGetattrRequest(ino) ==
    /\ ov.mounted
    /\ Observe(Request("getattr", ino, <<>>, 0, 0, 0), OverlayGetattr(ov, ino))
    /\ UNCHANGED <<overlayVars, logicalVars, zffFsVars, physicalVars, mainVars>>

OverlayReaddirRequest(ino, offset, cap) ==
    /\ ov.mounted
    /\ Observe(Request("readdir", ino, <<>>, offset, 0, cap), OverlayReaddir(ov, oc, ino, offset, cap))
    /\ UNCHANGED <<overlayVars, logicalVars, zffFsVars, physicalVars, mainVars>>

InitOverlay ==
    /\ oc \in {c \in OverlayContainers : WellFormedOverlayContainer(c)}
    /\ ov = NoOverlay
    /\ cont = LogicalContainer(0)
    /\ rd = InitialReader(cont)
    /\ last = NoExchange
    /\ held = NoExchange
    /\ watch = {}
    /\ zc = NoZffContainer
    /\ zf = NoZffFs
    /\ ph = NoPhysical
    /\ mn = NoMain

NextOverlay ==
    \/ OverlayMount
    \/ \E parent \in {1, FirstObjectInode}, name \in OverlayNames : OverlayLookupRequest(parent, name)
    \/ \E ino \in OverlayInodes : OverlayGetattrRequest(ino)
    \/ \E ino \in {1, FirstObjectInode}, offset \in OverlayOffsets, cap \in Caps :
           OverlayReaddirRequest(ino, offset, cap)

SpecOverlay == InitOverlay /\ [][NextOverlay]_vars

----------------------------------------------------------------------------
(* ZffFs (fs/mod.rs) and the ZffReader it drives *)

OBJECT_PATH_PREFIX == <<"o", "b", "j", "e", "c", "t", "_">>
ZFF_PHYSICAL_OBJECT_NAME == <<"z", "f", "f", "_", "i", "m", "a", "g", "e", ".", "d", "d">>

SetMax(S) == CHOOSE m \in S : \A x \in S : x <= m

ZffFile(file_type, filename, parent_file_number, first_chunk_number, content) ==
    [file_type |-> file_type, filename |-> filename, parent_file_number |-> parent_file_number,
     first_chunk_number |-> first_chunk_number, content |-> content]

\* The files of logical object 1: the directory "a" (file 1) and the hardlink "h"
\* (file 4, to file 3) in the root, the directory "s" (file 2) in "a", the file "f"
\* (file 3) in "s".
FilesOfObject1 ==
    <<ZffFile("Directory", <<"a">>, 0, 5, EncodeVecU64(<<2>>)),
      ZffFile("Directory", <<"s">>, 1, 7, EncodeVecU64(<<3>>)),
      ZffFile("File", <<"f">>, 2, 9, <<64, 65>>),
      ZffFile("Hardlink", <<"h">>, 0, 11, EncodeU64(3))>>

\* Object 1 is logical, object 2 is encrypted with the password "pw2" (and of the kind
\* enc_kind underneath), object 3 is physical.
ZffObject(n, enc_kind) ==
    CASE n = 1 -> [listed |-> "Logical", kind |-> "Logical", password |-> "",
                   first_chunk_number |-> 0, root_dir_filenumbers |-> <<1, 4>>,
                   files |-> FilesOfObject1]
      [] n = 2 -> [listed |-> "Encrypted", kind |-> enc_kind, password |-> "pw2",
                   first_chunk_number |-> 20, root_dir_filenumbers |-> <<1>>,
                   files |-> IF enc_kind = "Logical"
                             THEN <<ZffFile("File", <<"g">>, 0, 21, <<70>>)>> ELSE <<>>]
      [] n = 3 -> [listed |-> "Physical", kind |-> "Physical", password |-> "",
                   first_chunk_number |-> 30, root_dir_filenumbers |-> <<>>, files |-> <<>>]

\* The files of logical object 1 with a special file "p" (file 5) added to the
\* directory "s".
FilesWithSpecialFile(payload) ==
    <<FilesOfObject1[1],
      ZffFile("Directory", <<"s">>, 1, 7, EncodeVecU64(<<3, 5>>)),
      FilesOfObject1[3],
      FilesOfObject1[4],
      ZffFile("SpecialFile", <<"p">>, 2, 13, payload)>>

\* the payloads of the special file: none, an unknown flag, fifo, char after another
\* byte, block
SpecialPayloads == {<<>>, <<7>>, <<0>>, <<7, 1>>, <<2>>}

\* the objects of a container: object 1 has the special file if special holds a
\* payload for it, and its hardlink "h" names the file hardlink (3 is "f", 4 is "h"
\* itself)
ObjectsOfContainer(present, enc_kind, special, hardlink) ==
    [n \in present |->
        IF n = 1 /\ special # {}
        THEN [ZffObject(n, enc_kind) EXCEPT
                  !.files = FilesWithSpecialFile(CHOOSE payload \in special : TRUE)]
        ELSE IF n = 1
        THEN [ZffObject(n, enc_kind) EXCEPT !.files[4].content = EncodeU64(hardlink)]
        ELSE ZffObject(n, enc_kind)]

\* passwords is decryption_passwords as a set of <<object number, password>>; fault
\* names the reader call of new that fails; special holds the payload of the special
\* file of object 1, if it has one
ZffContainers ==
    {[present |-> present, enc_kind |-> enc_kind, passwords |-> passwords, fault |-> fault,
      special |-> special, hardlink |-> hardlink,
      objects |-> ObjectsOfContainer(present, enc_kind, special, hardlink)] :
        special \in {{}} \cup {{payload} : payload \in SpecialPayloads},
        hardlink \in {3, 4},
        present \in SUBSET {1, 2, 3},
        enc_kind \in {"Physical", "Logical"},
        passwords \in {{}, {<<2, "pw2">>}, {<<2, "bad">>}},
        fault \in {"none", "with_reader", "list_objects", "initialize_object"}}

\* one container for each behaviour: what is said of an absent object 2 does not matter
DistinctZffContainer(c) ==
    /\ 2 \notin c.present => c.enc_kind = "Physical" /\ c.passwords = {}
    /\ c.fault \in {"with_reader", "list_objects"} => c.present = {1}
    /\ c.fault = "initialize_object" => c.present \in {{1}, {3}, {2, 3}}
    /\ c.special # {} => c.present = {1} /\ c.fault = "none"
    /\ c.hardlink # 3 => c.present = {1} /\ c.fault = "none" /\ c.special = {}

ObjectOf(c, n) == c.objects[n]

\* ZffReader::list_objects, before any object is decrypted
ListObjects(c) == [n \in c.present |-> ObjectOf(c, n).listed]

\* the kind the reader has for an object: Encrypted until decrypt_object succeeded
ReaderKind(r, c, n) ==
    IF ObjectOf(c, n).listed = "Encrypted" /\ n \notin r.decrypted
    THEN "Encrypted" ELSE ObjectOf(c, n).kind

\* ZffReader::initialize_object
InitializeObject(r, c, n) ==
    IF c.fault = "initialize_object" THEN [ok |-> FALSE, r |-> r]
    ELSE [ok |-> TRUE, r |-> [r EXCEPT !.initialized = @ \cup {n}]]

\* ZffReader::decrypt_object
DecryptObject(r, c, n, pw) ==
    IF n \in r.initialized /\ pw = ObjectOf(c, n).password
    THEN [ok |-> TRUE, r |-> [r EXCEPT !.decrypted = @ \cup {n}]]
    ELSE [ok |-> FALSE, r |-> r]

\* ZffReader::set_active_object
SetActiveObject(r, c, n) ==
    IF n \in c.present /\ n \in r.initialized THEN [ok |-> TRUE, r |-> [r EXCEPT !.active_object = n]]
    ELSE [ok |-> FALSE, r |-> r]

\* ZffReader::active_object_footer
ActiveObjectFooter(r, c) ==
    IF r.active_object \in c.present /\ ReaderKind(r, c, r.active_object) # "Encrypted"
    THEN [ok |-> TRUE, kind |-> ReaderKind(r, c, r.active_object),
          footer |-> ObjectOf(c, r.active_object)]
    ELSE [ok |-> FALSE, kind |-> "Encrypted", footer |-> ZffObject(3, "Physical")]

\* ZffReader::set_active_file
SetActiveFile(r, c, filenumber) ==
    IF /\ r.active_object \in c.present
       /\ ReaderKind(r, c, r.active_object) = "Logical"
       /\ filenumber \in DOMAIN ObjectOf(c, r.active_object).files
    THEN [ok |-> TRUE, r |-> [r EXCEPT !.active_file[r.active_object] = filenumber]]
    ELSE [ok |-> FALSE, r |-> r]

\* ZffReader::current_filemetadata
CurrentFilemetadata(r, c) ==
    ObjectOf(c, r.active_object).files[r.active_file[r.active_object]]

\* Read::read_to_end on the reader: what is left of the active file from its position
ReadToEnd(r, c) ==
    LET key == <<r.active_object, r.active_file[r.active_object]>>
        content == CurrentFilemetadata(r, c).content
    IN [r |-> [r EXCEPT !.pos[key] = Len(content)],
        buffer |-> SubSeq(content, r.pos[key] + 1, Len(content))]

\* the reader with_reader gives: nothing decrypted, every file at position 0
NewZffReader(c) ==
    LET logical == {n \in c.present : ObjectOf(c, n).kind = "Logical"} IN
    [initialized |-> {},
     decrypted |-> {},
     trace |-> <<>>,
     active_object |-> 0,
     active_file |-> [n \in logical |-> 1],
     pos |-> [k \in UNION {{<<n, f>> : f \in DOMAIN ObjectOf(c, n).files} : n \in logical}
                 |-> 0]]

\* convert_filetype, for the file types without content to read
ConvertFiletype(in_type) ==
    CASE in_type = "File" -> "RegularFile"
      [] in_type = "Directory" -> "Directory"
      [] in_type = "Symlink" -> "Symlink"

\* ZffSpecialFileType::try_from
ZffSpecialFileTypeTryFrom(byte) ==
    CASE byte = 0 -> [ok |-> TRUE, flag |-> "Fifo"]
      [] byte = 1 -> [ok |-> TRUE, flag |-> "Char"]
      [] byte = 2 -> [ok |-> TRUE, flag |-> "Block"]
      [] OTHER -> [ok |-> FALSE, flag |-> "Fifo"]

\* the kind of a special file's flag
SpecialFileKind(flag) ==
    CASE flag = "Fifo" -> "NamedPipe"
      [] flag = "Char" -> "CharDevice"
      [] flag = "Block" -> "BlockDevice"

\* convert_filetype, for a special file: the kind for the flag byte taken from the
\* buffer read
SpecialFiletypeOf(r, buffer, byte) ==
    IF buffer = <<>> \/ ~ZffSpecialFileTypeTryFrom(byte).ok
    THEN [panic |-> FALSE, ok |-> FALSE, r |-> r, filetype |-> "RegularFile"]
    ELSE [panic |-> FALSE, ok |-> TRUE, r |-> r,
          filetype |-> SpecialFileKind(ZffSpecialFileTypeTryFrom(byte).flag)]

\* buffer.last() of what read_to_end delivered, and the file type of this flag
LastByteRead(got) == SpecialFiletypeOf(got.r, got.buffer, got.buffer[Len(got.buffer)])

\* a convert_filetype that takes the flag from the first byte read
ConvertFiletypeSpecialFileByFirstByte(r, c) ==
    LET got == ReadToEnd(r, c) IN SpecialFiletypeOf(got.r, got.buffer, got.buffer[1])

\* convert_filetype, for a special file: the flag is the last byte read of the active
\* file
ConvertFiletypeSpecialFile(r, c) == LastByteRead(ReadToEnd(r, c))

\* convert_filetype, with the reader it reads a special file from; a hardlink ends in
\* unreachable!(), a panic
ConvertFiletypeWith(r, c, in_type) ==
    IF in_type = "Hardlink"
    THEN [panic |-> TRUE, ok |-> FALSE, r |-> r, filetype |-> "RegularFile"]
    ELSE IF in_type = "SpecialFile" THEN ConvertFiletypeSpecialFile(r, c)
    ELSE [panic |-> FALSE, ok |-> TRUE, r |-> r, filetype |-> ConvertFiletype(in_type)]

RECURSIVE ReaddirEntriesFile(_, _, _, _, _)

\* readdir_entries_file: the entry of one child, once its file type is converted
RECURSIVE PushEntry(_, _, _, _, _, _)
PushEntry(filetype, filemetadata, c, shift_value, children, entries) ==
    IF filetype.panic \/ ~filetype.ok
    THEN [panic |-> filetype.panic, ok |-> FALSE, r |-> filetype.r, entries |-> <<>>]
    ELSE ReaddirEntriesFile(filetype.r, c, shift_value, Tail(children),
             Append(entries, DirEntry(filemetadata.first_chunk_number + shift_value,
                                      filetype.filetype, filemetadata.filename)))

\* readdir_entries_file
ReaddirEntriesFile(r, c, shift_value, children, entries) ==
    IF children = <<>> THEN [panic |-> FALSE, ok |-> TRUE, r |-> r, entries |-> entries]
    ELSE
    LET set == SetActiveFile(r, c, Head(children))
        Failed(r2) == [panic |-> FALSE, ok |-> FALSE, r |-> r2, entries |-> <<>>]
        Push(r2, filemetadata) ==
            PushEntry(ConvertFiletypeWith(r2, c, filemetadata.file_type), filemetadata,
                      c, shift_value, children, entries)
    IN
    IF ~set.ok THEN Failed(set.r)
    ELSE IF CurrentFilemetadata(set.r, c).file_type = "Hardlink"
    THEN LET got == ReadToEnd(set.r, c)
             original_filenumber == DecodeU64(got.buffer)
             target == SetActiveFile(got.r, c, original_filenumber.value)
         IN IF ~original_filenumber.ok \/ ~target.ok THEN Failed(got.r)
            ELSE Push(target.r, CurrentFilemetadata(target.r, c))
    ELSE Push(set.r, CurrentFilemetadata(set.r, c))

\* readdir_physical_object_root
ReaddirPhysicalObjectRoot(r, c, shift_value) ==
    LET footer == ActiveObjectFooter(r, c) IN
    IF ~footer.ok \/ footer.kind # "Physical" THEN [panic |-> FALSE, ok |-> FALSE, r |-> r, entries |-> <<>>]
    ELSE [panic |-> FALSE, ok |-> TRUE, r |-> r,
          entries |-> <<DirEntry(footer.footer.first_chunk_number + shift_value, "RegularFile",
                                 ZFF_PHYSICAL_OBJECT_NAME)>>]

\* readdir_logical_object_root
ReaddirLogicalObjectRoot(r, c, shift_value) ==
    LET footer == ActiveObjectFooter(r, c) IN
    IF ~footer.ok \/ footer.kind # "Logical" THEN [panic |-> FALSE, ok |-> FALSE, r |-> r, entries |-> <<>>]
    ELSE ReaddirEntriesFile(r, c, shift_value, footer.footer.root_dir_filenumbers, <<>>)

\* prepare_zffreader_logical_file
PrepareZffreaderLogicalFile(r, c, object_no, file_no) ==
    LET object == SetActiveObject(r, c, object_no)
        file == SetActiveFile(object.r, c, file_no)
    IN IF ~object.ok THEN [ok |-> FALSE, r |-> object.r]
       ELSE [ok |-> file.ok, r |-> file.r]

\* inode_reverse_map_add_object: the entries of one logical object.  The keys of
\* file_footer_segment_numbers come in no fixed order; last_file is the last of them.
InodeReverseMapAddObject(r, c, object_number, shift_value, last_file) ==
    LET object == SetActiveObject(r, c, object_number)
        footer == ActiveObjectFooter(object.r, c)
        files == ObjectOf(c, object_number).files
    IN IF ~object.ok \/ ~footer.ok \/ footer.kind # "Logical"
       THEN [ok |-> FALSE, r |-> object.r, added |-> {}, counter |-> 0]
       ELSE [ok |-> TRUE, r |-> SetActiveFile(object.r, c, last_file).r,
             added |-> {<<files[f].first_chunk_number + shift_value, object_number, f>> :
                            f \in DOMAIN files},
             counter |-> Len(files)]

\* ZffFs::new: the loop that fills inode_reverse_map, over the objects in ascending order
RECURSIVE SetupInodeReverseMap(_, _, _, _, _, _)
SetupInodeReverseMap(r, c, todo, shift_value, last_of, added) ==
    IF todo = {} THEN [ok |-> TRUE, r |-> r, added |-> added]
    ELSE LET n == CHOOSE m \in todo : \A x \in todo : m <= x
             one == InodeReverseMapAddObject(r, c, n, shift_value, last_of[n])
         IN IF ~one.ok THEN [ok |-> FALSE, r |-> one.r, added |-> added]
            ELSE SetupInodeReverseMap(one.r, c, todo \ {n}, shift_value, last_of,
                                      added \cup one.added)

\* ZffFs::new: the password for an encrypted object, the supplied one or else the one
\* entered at the prompt ("" when none is entered)
PasswordFor(c, n, entered) ==
    IF \E p \in c.passwords : p[1] = n
    THEN (CHOOSE p \in c.passwords : p[1] = n)[2]
    ELSE entered

\* one call ZffFs::new makes while it initializes and decrypts
Call(call, object, password) == [call |-> call, object |-> object, password |-> password]

Traced(r, call) == [r EXCEPT !.trace = Append(@, call)]

\* an initialization that decrypts every object, whatever its type
RECURSIVE InitializeAndDecryptEveryObject(_, _, _, _)
InitializeAndDecryptEveryObject(r, c, todo, entered) ==
    IF todo = {} THEN r
    ELSE LET n == CHOOSE m \in todo : \A x \in todo : m <= x
             pw == PasswordFor(c, n, entered)
             initialized == Traced(InitializeObject(r, c, n).r, Call("initialize_object", n, ""))
         IN InitializeAndDecryptEveryObject(
                Traced(DecryptObject(initialized, c, n, pw).r, Call("decrypt_object", n, pw)),
                c, todo \ {n}, entered)

\* an initialization that gives up at the first object it cannot decrypt
RECURSIVE InitializeAndDecryptUntilFailure(_, _, _, _)
InitializeAndDecryptUntilFailure(r, c, todo, entered) ==
    IF todo = {} THEN r
    ELSE LET n == CHOOSE m \in todo : \A x \in todo : m <= x
             pw == PasswordFor(c, n, entered)
             initialized == Traced(InitializeObject(r, c, n).r, Call("initialize_object", n, ""))
             decrypted == DecryptObject(initialized, c, n, pw)
         IN IF ListObjects(c)[n] # "Encrypted"
            THEN InitializeAndDecryptUntilFailure(initialized, c, todo \ {n}, entered)
            ELSE IF ~decrypted.ok THEN Traced(decrypted.r, Call("decrypt_object", n, pw))
            ELSE InitializeAndDecryptUntilFailure(
                     Traced(decrypted.r, Call("decrypt_object", n, pw)), c, todo \ {n}, entered)

\* ZffFs::new: the loop that initializes and decrypts the objects, in ascending order
\* of their numbers; a failure of either call is only logged
RECURSIVE InitializeAndDecrypt(_, _, _, _)
InitializeAndDecrypt(r, c, todo, entered) ==
    IF todo = {} THEN r
    ELSE LET n == CHOOSE m \in todo : \A x \in todo : m <= x
             pw == PasswordFor(c, n, entered)
             initialized == Traced(InitializeObject(r, c, n).r, Call("initialize_object", n, ""))
             prompted == IF \E p \in c.passwords : p[1] = n THEN initialized
                         ELSE Traced(initialized, Call("enter_password_dialog", n, entered))
             next == IF ListObjects(c)[n] = "Encrypted"
                     THEN Traced(DecryptObject(prompted, c, n, pw).r,
                                 Call("decrypt_object", n, pw))
                     ELSE initialized
         IN InitializeAndDecrypt(next, c, todo \ {n}, entered)

ExitedZffFs == [NoZffFs EXCEPT !.phase = "exited"]

\* ZffFs::new: the shift value, from the numbers of the objects not listed as Encrypted
ShiftValue(numbers) == IF numbers = {} THEN 1 ELSE SetMax(numbers) + 1

\* ZffFs::new
ZffFsNew(c, entered, last_of) ==
    IF c.fault \in {"with_reader", "list_objects"} THEN ExitedZffFs
    ELSE
    LET object_list == ListObjects(c)
        decrypted == InitializeAndDecrypt(NewZffReader(c), c, DOMAIN object_list, entered)
        numbers_of_decrypted_objects == {n \in DOMAIN object_list : object_list[n] # "Encrypted"}
        shift_value == ShiftValue(numbers_of_decrypted_objects)
        map == SetupInodeReverseMap(decrypted, c,
                   {n \in DOMAIN object_list : object_list[n] = "Logical"},
                   shift_value, last_of, {})
    IN IF ~map.ok THEN ExitedZffFs
       ELSE [phase |-> "mounted", zffreader |-> map.r, shift_value |-> shift_value,
             object_list |-> object_list,
             inode_reverse_map |->
                [ino \in {e[1] : e \in map.added} |->
                    LET e == CHOOSE x \in map.added : x[1] = ino IN <<e[2], e[3]>>]]

\* ZffFs::readdir: the entries of the mount root
ZffFsRootEntries(z) ==
    LET numbers == {n \in DOMAIN z.object_list : z.object_list[n] # "Encrypted"}
        Ascending[S \in SUBSET numbers] ==
            IF S = {} THEN <<>>
            ELSE LET n == SetMax(S) IN
                 Append(Ascending[S \ {n}],
                        DirEntry(n + 1, "Directory", OBJECT_PATH_PREFIX \o Decimal(n)))
    IN <<DirEntry(SPECIAL_INODE_ROOT_DIR, "Directory", CurrentDirName),
         DirEntry(SPECIAL_INODE_ROOT_DIR, "Directory", ParentDirName)>> \o Ascending[numbers]

\* ZffFs::readdir: entries.append of the content read, or its error
ZffFsAppendEntries(dots, content) ==
    IF content.panic \/ ~content.ok
    THEN [panic |-> content.panic, ok |-> FALSE, r |-> content.r, entries |-> <<>>]
    ELSE [panic |-> FALSE, ok |-> TRUE, r |-> content.r, entries |-> dots \o content.entries]

\* an object root that is listed by what the reader holds, without the object list
ZffFsObjectRootEntriesUnchecked(z, c, ino) ==
    LET object == SetActiveObject(z.zffreader, c, ino - 1)
        dots == <<DirEntry(ino, "Directory", CurrentDirName),
                  DirEntry(SPECIAL_INODE_ROOT_DIR, "Directory", ParentDirName)>>
    IN IF ~object.ok THEN [panic |-> FALSE, ok |-> FALSE, r |-> object.r, entries |-> <<>>]
       ELSE ZffFsAppendEntries(dots,
                IF ReaderKind(object.r, c, ino - 1) = "Physical"
                THEN ReaddirPhysicalObjectRoot(object.r, c, z.shift_value)
                ELSE ReaddirLogicalObjectRoot(object.r, c, z.shift_value))

\* ZffFs::readdir: the entries of an object root (1 < ino <= shift_value)
ZffFsObjectRootEntries(z, c, ino) ==
    LET object == SetActiveObject(z.zffreader, c, ino - 1)
        dots == <<DirEntry(ino, "Directory", CurrentDirName),
                  DirEntry(SPECIAL_INODE_ROOT_DIR, "Directory", ParentDirName)>>
        content == IF z.object_list[ino - 1] = "Physical"
                   THEN ReaddirPhysicalObjectRoot(object.r, c, z.shift_value)
                   ELSE ReaddirLogicalObjectRoot(object.r, c, z.shift_value)
    IN IF ~object.ok THEN [panic |-> FALSE, ok |-> FALSE, r |-> object.r, entries |-> <<>>]
       ELSE IF (ino - 1) \notin DOMAIN z.object_list \/ z.object_list[ino - 1] = "Encrypted"
       THEN [panic |-> FALSE, ok |-> FALSE, r |-> object.r, entries |-> <<>>]
       ELSE ZffFsAppendEntries(dots, content)

\* ZffFs::readdir: the entries of a file's inode (ino > shift_value)
ZffFsFileEntries(z, c, ino) ==
    LET Failed(r) == [panic |-> FALSE, ok |-> FALSE, r |-> r, entries |-> <<>>] IN
    IF ino \notin DOMAIN z.inode_reverse_map THEN Failed(z.zffreader)
    ELSE
    LET object_no == z.inode_reverse_map[ino][1]
        file_no == z.inode_reverse_map[ino][2]
        prepared == PrepareZffreaderLogicalFile(z.zffreader, c, object_no, file_no)
    IN
    IF ~prepared.ok THEN Failed(prepared.r)
    ELSE
    LET filemetadata == CurrentFilemetadata(prepared.r, c)
        dots == <<DirEntry(ino, "Directory", CurrentDirName),
                  DirEntry(filemetadata.parent_file_number + z.shift_value, "Directory",
                           ParentDirName)>>
        got == ReadToEnd(prepared.r, c)
        children == DecodeVecU64(got.buffer)
        children_entries == ReaddirEntriesFile(got.r, c, z.shift_value, children.value, <<>>)
    IN
    IF ~children.ok THEN Failed(got.r)
    ELSE ZffFsAppendEntries(dots, children_entries)

\* ZffFs::readdir: the reply for the list built; none when the handler panicked
ZffFsReplyTo(built, offset, cap) ==
    [zffreader |-> built.r,
     panic |-> built.panic,
     reply |-> IF built.panic THEN NoReply
               ELSE IF built.ok THEN DirReply(AddEntries(built.entries, offset, cap))
               ELSE ErrorReply(ENOENT)]

\* ZffFs::readdir: the list of entries built before any of them is offered
ZffFsEntries(z, c, ino) ==
    IF ino = SPECIAL_INODE_ROOT_DIR
    THEN [panic |-> FALSE, ok |-> TRUE, r |-> z.zffreader, entries |-> ZffFsRootEntries(z)]
    ELSE IF ino <= z.shift_value THEN ZffFsObjectRootEntries(z, c, ino)
    ELSE ZffFsFileEntries(z, c, ino)

\* ZffFs::readdir
ZffFsReaddir(z, c, ino, offset, cap) == ZffFsReplyTo(ZffFsEntries(z, c, ino), offset, cap)

----------------------------------------------------------------------------
(* Mounting a ZffFs and the requests to it *)

\* what enter_password_dialog gives: the password entered, "" for none
PromptAnswers == {"", "pw2"}

\* the file of each logical object that the HashMap iteration of ZffFs::new visits
\* last, the one left active in the reader
LastFiles(c) ==
    LET logical == {n \in c.present : ObjectOf(c, n).listed = "Logical"} IN
    {g \in [logical -> UNION {DOMAIN ObjectOf(c, n).files : n \in logical}] :
        \A n \in logical : g[n] \in DOMAIN ObjectOf(c, n).files}

ZffFsMount ==
    /\ zf.phase = "start"
    /\ \E entered \in PromptAnswers, last_of \in LastFiles(zc) : zf' = ZffFsNew(zc, entered, last_of)
    /\ UNCHANGED <<zc, logicalVars, overlayVars, observerVars, physicalVars, mainVars>>

\* a readdir that lists the objects anew after it has replied
ZffFsReaddirRequestRelisting(ino, offset, cap) ==
    /\ zf.phase = "mounted"
    /\ LET res == ZffFsReaddir(zf, zc, ino, offset, cap) IN
         /\ zf' = [zf EXCEPT !.zffreader = res.zffreader,
                             !.object_list = [n \in zc.present |-> ReaderKind(res.zffreader, zc, n)]]
         /\ Observe(Request("readdir", ino, "", offset, 0, cap), res.reply)
    /\ UNCHANGED <<zc, logicalVars, overlayVars, physicalVars, mainVars>>

\* what a served readdir leaves: the reader as the handler left it, the exchange with
\* the observer, and a file system that is gone if the handler panicked
ZffFsServed(res, req) ==
    /\ zf' = [zf EXCEPT !.zffreader = res.zffreader,
                        !.phase = IF res.panic THEN "panicked" ELSE @]
    /\ Observe(req, res.reply)

ZffFsReaddirRequest(ino, offset, cap) ==
    /\ zf.phase = "mounted"
    /\ ZffFsServed(ZffFsReaddir(zf, zc, ino, offset, cap),
                   Request("readdir", ino, "", offset, 0, cap))
    /\ UNCHANGED <<zc, logicalVars, overlayVars, physicalVars, mainVars>>

\* the inodes asked for: the root, the object roots, and the inodes of the files 1, 2
\* and 3 of object 1
ZffFsInodes(z) == {1, 2, 3, 4} \cup {z.shift_value + k : k \in {5, 7, 9}}

\* the offsets asked for
ZffFsOffsets == {0, 1, 2}

InitZffFs ==
    /\ zc \in {c \in ZffContainers : DistinctZffContainer(c)}
    /\ zf = NoZffFs
    /\ ph = NoPhysical
    /\ mn = NoMain
    /\ oc = NoOverlayContainer
    /\ ov = NoOverlay
    /\ cont = LogicalContainer(0)
    /\ rd = InitialReader(cont)
    /\ last = NoExchange
    /\ held = NoExchange
    /\ watch = {}

NextZffFs ==
    \/ ZffFsMount
    \/ \E ino \in ZffFsInodes(zf), offset \in ZffFsOffsets, cap \in Caps :
           ZffFsReaddirRequest(ino, offset, cap)

SpecZffFs == InitZffFs /\ [][NextZffFs]_vars

----------------------------------------------------------------------------
(* ZffPhysicalObjectFs (lib/fs/version2.rs, and the older one of main.rs) *)

\* an i64 as the eight bytes of its two's complement, least significant first
EncodeI64(x) ==
    IF x >= 0 THEN EncodeU64(x)
    ELSE [i \in 1..8 |-> IF i <= 3 THEN ((LargeU64 + x) \div (256 ^ (i - 1))) % 256 ELSE 255]

\* offset as u64
OffsetAsU64(offset) == LeValue(EncodeI64(offset), 1)

\* ZffPhysicalObjectFs::new: file_attr, for the image of the object
PhysicalFileAttr(p) ==
    FileAttr(ZFF_OBJECT_FS_PHYSICAL_ATTR_INO, Len(p.image),
             Len(p.image) \div DEFAULT_BLOCKSIZE + 1, 20, 10, "RegularFile",
             ZFF_OBJECT_FS_PHYSICAL_ATTR_PERM, ZFF_OBJECT_FS_PHYSICAL_ATTR_NLINKS)

\* ZffPhysicalObjectFs::new: object_file_attr
PhysicalObjectFileAttr ==
    FileAttr(SPECIAL_INODE_ROOT_DIR, 0, 0, 20, 10, "Directory", 511,
             ZFF_OBJECT_FS_PHYSICAL_ATTR_NLINKS)

\* ZffPhysicalObjectFs::lookup
PhysicalLookup(p, parent, name) ==
    IF parent = SPECIAL_INODE_ROOT_DIR /\ name = ZFF_PHYSICAL_OBJECT_NAME
    THEN EntryReply(PhysicalFileAttr(p))
    ELSE ErrorReply(ENOENT)

\* ZffPhysicalObjectFs::getattr
PhysicalGetattr(p, ino) ==
    IF ino = SPECIAL_INODE_ROOT_DIR THEN AttrReply(PhysicalObjectFileAttr)
    ELSE IF ino = ZFF_OBJECT_FS_PHYSICAL_ATTR_INO THEN AttrReply(PhysicalFileAttr(p))
    ELSE ErrorReply(ENOENT)

\* ZffPhysicalObjectFs::readdir
PhysicalReaddir(ino, offset, cap) ==
    IF ino # SPECIAL_INODE_ROOT_DIR THEN ErrorReply(ENOENT)
    ELSE DirReply(AddEntries(
            <<DirEntry(SPECIAL_INODE_ROOT_DIR, "Directory", CurrentDirName),
              DirEntry(SPECIAL_INODE_ROOT_DIR, "Directory", ParentDirName),
              DirEntry(ZFF_OBJECT_FS_PHYSICAL_ATTR_INO, "RegularFile", ZFF_PHYSICAL_OBJECT_NAME)>>,
            offset, cap))

\* zffreader.seek(SeekFrom::Start(position)) on the image: an error of the segment
\* files (fails) leaves the position where it was
PhysicalSeek(p, position, fails) ==
    IF fails THEN [ok |-> FALSE, p |-> p]
    ELSE [ok |-> TRUE, p |-> [p EXCEPT !.pos = position]]

\* zffreader.read(&mut buffer) on the image, into a zero-filled buffer of size bytes
PhysicalReadIntoBuffer(p, size, fails) ==
    LET n == Min(size, Max(0, Len(p.image) - p.pos)) IN
    IF fails THEN [ok |-> FALSE, p |-> p, buffer |-> Zeros(size)]
    ELSE [ok |-> TRUE, p |-> [p EXCEPT !.pos = p.pos + n],
          buffer |-> FillBuffer(SubSeq(p.image, p.pos + 1, p.pos + n), size)]

\* ZffPhysicalObjectFs::read.  version2.rs logs a failed seek and goes on; main.rs
\* leaves the process with exit(EXIT_STATUS_ERROR).  Both log a failed read and
\* reply with the buffer.
PhysicalRead(p, ino, offset, size, seek_fails, read_fails) ==
    LET clean == [p EXCEPT !.failed = {}] IN
    IF ino # ZFF_OBJECT_FS_PHYSICAL_ATTR_INO
    THEN [p |-> clean, reply |-> ErrorReply(ENOENT)]
    ELSE
    LET sought == PhysicalSeek(clean, OffsetAsU64(offset), seek_fails) IN
    IF ~sought.ok /\ p.revision = "main"
    THEN [p |-> [sought.p EXCEPT !.failed = {"seek"}, !.running = FALSE], reply |-> NoReply]
    ELSE
    LET got == PhysicalReadIntoBuffer(sought.p, size, read_fails) IN
    [p |-> [got.p EXCEPT !.failed = (IF sought.ok THEN {} ELSE {"seek"})
                                       \cup (IF got.ok THEN {} ELSE {"read"})],
     reply |-> DataReply(got.buffer)]

----------------------------------------------------------------------------
(* Requests to a ZffPhysicalObjectFs *)

PhysicalInodes == {1, ZFF_OBJECT_FS_PHYSICAL_ATTR_INO, ZFF_OBJECT_FS_PHYSICAL_ATTR_INO + 1}

PhysicalLookupRequest(parent, name) ==
    /\ ph.running
    /\ ph' = [ph EXCEPT !.failed = {}]
    /\ Observe(Request("lookup", parent, name, 0, 0, 0), PhysicalLookup(ph, parent, name))
    /\ UNCHANGED <<logicalVars, overlayVars, zffFsVars, mainVars>>

PhysicalGetattrRequest(ino) ==
    /\ ph.running
    /\ ph' = [ph EXCEPT !.failed = {}]
    /\ Observe(Request("getattr", ino, <<>>, 0, 0, 0), PhysicalGetattr(ph, ino))
    /\ UNCHANGED <<logicalVars, overlayVars, zffFsVars, mainVars>>

PhysicalReaddirRequest(ino, offset, cap) ==
    /\ ph.running
    /\ ph' = [ph EXCEPT !.failed = {}]
    /\ Observe(Request("readdir", ino, <<>>, offset, 0, cap), PhysicalReaddir(ino, offset, cap))
    /\ UNCHANGED <<logicalVars, overlayVars, zffFsVars, mainVars>>

PhysicalReadRequest(ino, offset, size, seek_fails, read_fails) ==
    /\ ph.running
    /\ LET res == PhysicalRead(ph, ino, offset, size, seek_fails, read_fails) IN
         /\ ph' = res.p
         /\ Observe(Request("read", ino, <<>>, offset, size, 0), res.reply)
    /\ UNCHANGED <<logicalVars, overlayVars, zffFsVars, mainVars>>

InitPhysical ==
    /\ ph \in {[revision |-> revision, image |-> Bytes(len, 32), pos |-> 0, failed |-> {},
                running |-> TRUE] : revision \in {"version2", "main"}, len \in 0..MaxLen}
    /\ mn = NoMain
    /\ zc = NoZffContainer
    /\ zf = NoZffFs
    /\ oc = NoOverlayContainer
    /\ ov = NoOverlay
    /\ cont = LogicalContainer(0)
    /\ rd = InitialReader(cont)
    /\ last = NoExchange
    /\ held = NoExchange
    /\ watch = {}

NextPhysical ==
    \/ \E parent \in PhysicalInodes, name \in {ZFF_PHYSICAL_OBJECT_NAME, <<"x">>} :
           PhysicalLookupRequest(parent, name)
    \/ \E ino \in PhysicalInodes : PhysicalGetattrRequest(ino)
    \/ \E ino \in PhysicalInodes, offset \in ReaddirOffsets, cap \in Caps :
           PhysicalReaddirRequest(ino, offset, cap)
    \/ \E ino \in PhysicalInodes, offset \in ReadOffsets, size \in ReadSizes,
          seek_fails \in BOOLEAN, read_fails \in BOOLEAN :
           PhysicalReadRequest(ino, offset, size, seek_fails, read_fails)

SpecPhysical == InitPhysical /\ [][NextPhysical]_vars

----------------------------------------------------------------------------
(* main of main.rs: the overlay session and one session for every object *)

\* the image of physical object n in the segment files
MainImage(n) == Bytes(MaxLen, 16 * n)

\* one handle that every File::open returns again
FileOpenSameHandle(opened) == 1

\* File::open: a handle of its own, the next one the process opens; every handle
\* has its own position in the file
FileOpen(opened) == opened + 1

\* ZffPhysicalObjectFs::new of main.rs: a reader over the handles given, set to the
\* physical object; an object that is not physical is an error
MainPhysicalObjectFsNew(segments, object_number) ==
    IF OverlayObject(object_number).kind # "Physical"
    THEN [ok |-> FALSE, object_number |-> object_number, zffreader |-> segments,
          reader |-> [image |-> <<>>, pos |-> 0]]
    ELSE [ok |-> TRUE, object_number |-> object_number, zffreader |-> segments,
          reader |-> [image |-> MainImage(object_number), pos |-> 0]]

\* an object filesystem of object_fs_vec: built, not mounted yet
ObjectSession(object_fs) ==
    [object_number |-> object_fs.object_number, zffreader |-> object_fs.zffreader,
     pc |-> "unmounted", req |-> NoRequest, rep |-> NoReply]

\* main: for (object_number, object_type) in &overlay_fs.object_types_map, from the
\* i-th object of the iteration on.  The process exits when File::open fails (open, no
\* new handle) or when ZffPhysicalObjectFs::new does (object_fs_new, the handle is
\* opened by then).
RECURSIVE MainObjectFsVec(_, _, _)
MainObjectFsVec(m, c, i) ==
    IF i > Len(c.iter) THEN m
    ELSE IF m.object_types_map[c.iter[i]] = "Logical" THEN [m EXCEPT !.phase = "panicked"]
    ELSE IF c.fault = "open" THEN [m EXCEPT !.phase = "exited"]
    ELSE
    LET object_fs == MainPhysicalObjectFsNew(FileOpen(m.opened), c.iter[i]) IN
    IF ~object_fs.ok \/ c.fault = "object_fs_new"
    THEN [m EXCEPT !.phase = "exited", !.opened = m.opened + 1]
    ELSE MainObjectFsVec(
            [m EXCEPT !.opened = m.opened + 1,
                      !.fs = (c.iter[i] :> ObjectSession(object_fs)) @@ m.fs,
                      !.readers = (object_fs.zffreader :> object_fs.reader) @@ m.readers],
            c, i + 1)

\* main up to the first spawn_mount2: ZffOverlayFs::new opens the files for a reader
\* that it drops, then the object filesystems are built; nothing is mounted yet.
\* ZffOverlayFs::new fails at its File::open (overlay_open, no handle opened) or at
\* ZffReader::new (overlay_new, the handle is opened by then).
Main(c) ==
    IF c.fault = "overlay_open" THEN [NoMain EXCEPT !.phase = "exited"]
    ELSE IF c.fault = "overlay_new" THEN [NoMain EXCEPT !.phase = "exited", !.opened = 1]
    ELSE
    LET built == MainObjectFsVec(
                    [phase |-> "building", opened |-> 1,
                     object_types_map |-> [n \in c.present |-> OverlayObject(n).kind],
                     fs |-> <<>>, readers |-> <<>>, sessions |-> 0], c, 1) IN
    IF built.phase # "building" THEN built
    ELSE [built EXCEPT !.phase = "running"]

\* main: the next spawn_mount2(..).unwrap(), the overlay first and then the object
\* filesystems in the order of object_fs_vec.  The session mounted serves from now
\* on in the background; a mount that fails makes main panic, which ends the process
\* and every session with it.
MainSpawnMount2(m, c) ==
    IF c.fault = "spawn_mount2" /\ c.fails_at = m.sessions
    THEN [m EXCEPT !.phase = "panicked"]
    ELSE IF m.sessions = 0 THEN [m EXCEPT !.sessions = 1]
    ELSE [m EXCEPT !.sessions = m.sessions + 1, !.fs[c.iter[m.sessions]].pc = "idle"]

\* ZffPhysicalObjectFs::read of main.rs up to the seek: the session of object n takes
\* the request; a failed seek leaves the process
MainReadSeek(m, n, ino, offset, size, seek_fails) ==
    LET request == Request("read", ino, "", offset, size, 0)
        h == m.fs[n].zffreader
        sought == PhysicalSeek(m.readers[h], OffsetAsU64(offset), seek_fails)
    IN
    IF ino # ZFF_OBJECT_FS_PHYSICAL_ATTR_INO
    THEN [m EXCEPT !.fs[n].req = request, !.fs[n].rep = ErrorReply(ENOENT)]
    ELSE IF ~sought.ok
    THEN [m EXCEPT !.phase = "exited", !.fs[n].req = request, !.fs[n].rep = NoReply]
    ELSE [m EXCEPT !.readers[h] = sought.p, !.fs[n].pc = "sought",
                   !.fs[n].req = request, !.fs[n].rep = NoReply]

\* ZffPhysicalObjectFs::read of main.rs from the read on: a failed read is printed,
\* the reply is the buffer
MainReadData(m, n, read_fails) ==
    LET h == m.fs[n].zffreader
        got == PhysicalReadIntoBuffer(m.readers[h], m.fs[n].req.size, read_fails)
    IN [m EXCEPT !.readers[h] = got.p, !.fs[n].pc = "idle",
                 !.fs[n].rep = DataReply(got.buffer)]

----------------------------------------------------------------------------
(* Requests to the sessions of main *)

\* The containers main is run on: 7 and 8 are physical objects, 5 is a logical one.
MainContainers ==
    {[present |-> present, passwords |-> {}, object_numbers |-> numbers, iter |-> iter,
      fault |-> fault, fails_at |-> fails_at] :
        present \in {{7}, {7, 8}, {5, 7}},
        numbers \in UNION {Orders(S) : S \in {{7}, {7, 8}, {5, 7}}},
        iter \in UNION {Orders(S) : S \in {{7}, {7, 8}, {5, 7}}},
        fault \in {"none", "overlay_open", "overlay_new", "open", "object_fs_new", "spawn_mount2"},
        fails_at \in 0..2}

WellFormedMainContainer(c) ==
    /\ WellFormedOverlayContainer(c)
    /\ \A i, j \in DOMAIN c.object_numbers : i < j => c.object_numbers[i] < c.object_numbers[j]
    /\ c.fault \in {"overlay_open", "overlay_new", "open", "object_fs_new"} => c.present = {7}
    /\ c.fault = "spawn_mount2" => c.present \in {{7}, {7, 8}}
    \* fails_at: the spawn_mount2 call that fails, 0 for the overlay, i for the i-th
    \* object filesystem
    /\ IF c.fault = "spawn_mount2" THEN c.fails_at <= Len(c.iter) ELSE c.fails_at = 0

\* main mounts the next filesystem
MainSpawnStep ==
    /\ mn.phase = "running"
    /\ mn.sessions <= Len(oc.iter)
    /\ mn' = MainSpawnMount2(mn, oc)
    /\ UNCHANGED <<logicalVars, observerVars, overlayVars, zffFsVars, physicalVars>>

\* the overlay session serves a getattr
MainOverlayGetattrRequest(ino) ==
    /\ mn.phase = "running"
    /\ mn.sessions >= 1
    /\ OverlayGetattrRequest(ino)

\* the session of object n takes a read and seeks
MainReadSeekStep(n, ino, offset, size, seek_fails) ==
    /\ mn.phase = "running"
    /\ n \in DOMAIN mn.fs
    /\ mn.fs[n].pc = "idle"
    /\ mn' = MainReadSeek(mn, n, ino, offset, size, seek_fails)
    /\ UNCHANGED <<logicalVars, observerVars, overlayVars, zffFsVars, physicalVars>>

\* the session of object n reads and replies
MainReadDataStep(n, read_fails) ==
    /\ mn.phase = "running"
    /\ n \in DOMAIN mn.fs
    /\ mn.fs[n].pc = "sought"
    /\ mn' = MainReadData(mn, n, read_fails)
    /\ UNCHANGED <<logicalVars, observerVars, overlayVars, zffFsVars, physicalVars>>

InitMain ==
    /\ oc \in {c \in MainContainers : WellFormedMainContainer(c)}
    /\ ov = IF oc.fault \in {"overlay_open", "overlay_new"} THEN NoOverlay ELSE OverlayFsNew(oc)
    /\ mn = Main(oc)
    /\ ph = NoPhysical
    /\ zc = NoZffContainer
    /\ zf = NoZffFs
    /\ cont = LogicalContainer(0)
    /\ rd = InitialReader(cont)
    /\ last = NoExchange
    /\ held = NoExchange
    /\ watch = {}

MainOverlayInodes == {SPECIAL_INODE_ROOT_DIR, FirstObjectInode}
MainReadInodes == {SPECIAL_INODE_ROOT_DIR, ZFF_OBJECT_FS_PHYSICAL_ATTR_INO}
MainReadOffsets == {-1, 0, 1}

NextMain ==
    \/ MainSpawnStep
    \/ \E ino \in MainOverlayInodes : MainOverlayGetattrRequest(ino)
    \/ \E n \in {7, 8}, ino \in MainReadInodes, offset \in MainReadOffsets, size \in ReadSizes,
          seek_fails \in BOOLEAN :
           MainReadSeekStep(n, ino, offset, size, seek_fails)
    \/ \E n \in {7, 8}, read_fails \in BOOLEAN : MainReadDataStep(n, read_fails)

SpecMain == InitMain /\ [][NextMain]_vars

----------------------------------------------------------------------------
(* What the container says, independently of the handlers *)

\* the inode under which ZffLogicalObjectFs exposes a file
InodeOfFile(f) == f + 1

\* the inode of the directory that holds file f
ParentInodeOfFile(f) == cont.files[f].parent + 1

\* the files that directory inode parent holds under name
ChildrenNamed(parent, name) ==
    {f \in FileNumbers : ParentInodeOfFile(f) = parent /\ cont.files[f].filename = name}

\* the target of a hardlink, the file itself otherwise
TargetOf(f) ==
    IF cont.files[f].file_type = "Hardlink" THEN LeValue(cont.files[f].content, 1) ELSE f

----------------------------------------------------------------------------
(* Claims about ZffLogicalObjectFs *)

\* C1 (as claimed): a read at 0 <= off <= L of a regular file of length L replies with
\* exactly min(sz, L - off) bytes, the bytes [off, off + returned) of its content.
C1_ReadFraming ==
    (/\ last.req.op = "read"
     /\ last.req.ino - 1 \in FileNumbers
     /\ cont.files[last.req.ino - 1].file_type = "File"
     /\ last.req.offset \in 0..LengthOfData(last.req.ino - 1))
    => LET c == cont.files[last.req.ino - 1].content
           n == Min(last.req.size, Len(c) - last.req.offset)
       IN /\ last.rep.kind = "data"
          /\ last.rep.val = SubSeq(c, last.req.offset + 1, last.req.offset + n)

\* C2 (as claimed): the lookup of a hardlink's directory entry and the lookup of its
\* target's directory entry return the same inode and identical attribute records.
C2_HardlinkLookupEquivalence ==
    (/\ held.req.op = "lookup" /\ last.req.op = "lookup"
     /\ held.req # last.req)
    => /\ held.rep.kind = "entry"
       /\ last.rep.kind = "entry"
       /\ held.rep.val = last.rep.val

\* C3: a read on the inode of a hardlink and a read with the same offset and size on
\* the inode of its target reply with the same bytes, which are the target's.
C3_HardlinkReadEquivalence ==
    (/\ held.req.op = "read" /\ last.req.op = "read"
     /\ held.req.ino # last.req.ino)
    => /\ held.rep = last.rep
       /\ (last.req.offset >= 0 =>
             /\ last.rep.kind = "data"
             /\ \A i \in 1..Len(last.rep.val) :
                   last.rep.val[i] # 0 =>
                       last.rep.val[i] = cont.files[2].content[last.req.offset + i])

\* C3 witness: both a read of the hardlink and the same read of its target were served,
\* at an offset above 0, and replied with content of the target.
C3_Witness ==
    /\ held.req.op = "read" /\ last.req.op = "read"
    /\ held.req.ino = 4 /\ last.req.ino = 3
    /\ last.req.offset = 1
    /\ held.rep.kind = "data" /\ held.rep.val[1] = 66

\* C7 (as claimed): getattr of every inode that a lookup reply or a readdir entry
\* reports succeeds, with that inode as ino and the kind the entry reported.
C7_ReportedInodesHaveAttributes ==
    /\ (last.req.op = "readdir" /\ last.rep.kind = "dir") =>
           \A i \in 1..Len(last.rep.val) :
               LET g == LogicalGetattr(rd, last.rep.val[i].ino).reply IN
               /\ g.kind = "attr"
               /\ g.val.ino = last.rep.val[i].ino
               /\ g.val.kind = last.rep.val[i].kind
    /\ (last.req.op = "lookup" /\ last.rep.kind = "entry") =>
           LET g == LogicalGetattr(rd, last.rep.val.ino).reply IN
           /\ g.kind = "attr"
           /\ g.val.ino = last.rep.val.ino
           /\ g.val.kind = last.rep.val.kind

\* C9: lookup(parent, name) replies with the entry of the child of parent that has that
\* name (for a hardlink, under the inode of its target), and with ENOENT when parent
\* has no child of that name, whatever files of that name exist elsewhere.
C9_LookupFiltersByParent ==
    last.req.op = "lookup"
    => LET kids == ChildrenNamed(last.req.ino, last.req.name) IN
       IF kids = {} THEN last.rep = ErrorReply(ENOENT)
       ELSE \E f \in kids :
               /\ last.rep.kind = "entry"
               /\ last.rep.val.ino = InodeOfFile(TargetOf(f))
               /\ last.rep.val.atime = cont.files[f].acquisition_end

\* C9 witness: "b" was looked up in directory d and resolved to the file of d, while
\* directory a holds another "b".
C9_Witness ==
    /\ last.req.op = "lookup" /\ last.req.ino = 5 /\ last.req.name = "b"
    /\ last.rep.kind = "entry" /\ last.rep.val.ino = 6
    /\ ChildrenNamed(2, "b") = {2}

\* C10: two lookups of the same (parent, name) reply the same, whatever requests were
\* served between them.
C10_LookupIdempotent ==
    (held.req.op = "lookup" /\ last.req = held.req) => last.rep = held.rep

\* C10 witness: a lookup was repeated after the reader had been moved to another file
\* and both times replied with an entry.
C10_Witness ==
    /\ held.req.op = "lookup" /\ last.req = held.req /\ last.n = 2
    /\ last.rep.kind = "entry"
    /\ held.req.ino = 2 /\ held.req.name = "link"
    /\ rd.active = 5 /\ rd.pos[2] > 0


----------------------------------------------------------------------------
(* Properties of ZffFs::readdir and ZffFs::new *)

\* the directory inodes of a mounted ZffFs: the root, the roots of the objects in the
\* listing of the root, and the inodes of the files that are directories
ZffFsIsDirectoryInode(z, c, ino) ==
    \/ ino = SPECIAL_INODE_ROOT_DIR
    \/ (ino - 1) \in DOMAIN z.object_list /\ z.object_list[ino - 1] # "Encrypted"
    \/ /\ ino > z.shift_value
       /\ ino \in DOMAIN z.inode_reverse_map
       /\ ObjectOf(c, z.inode_reverse_map[ino][1]).files[z.inode_reverse_map[ino][2]].file_type
             = "Directory"

\* the inode under which the parent directory of a directory inode is exposed
ZffFsParentInode(z, c, ino) ==
    IF ino <= z.shift_value THEN SPECIAL_INODE_ROOT_DIR
    ELSE LET object_no == z.inode_reverse_map[ino][1]
             files == ObjectOf(c, object_no).files
             parent == files[z.inode_reverse_map[ino][2]].parent_file_number
         IN IF parent = 0 THEN object_no + 1
            ELSE files[parent].first_chunk_number + z.shift_value

\* C4: for every directory inode D, the first two entries built by readdir(D, 0) are
\* (D, Directory, ".") and then (parent(D), Directory, ".."), where parent(D) is 1 for
\* the mount root and the object roots, N+1 for a directory with parent_file_number 0
\* in object N, and the file inode of the parent directory otherwise.
C4_DotEntries ==
    (/\ zf.phase = "mounted"
     /\ last.req.op = "readdir"
     /\ last.req.offset = 0
     /\ last.req.cap >= 2
     /\ ZffFsIsDirectoryInode(zf, zc, last.req.ino)
     /\ last.rep.kind = "dir")
    => /\ Len(last.rep.val) >= 2
       /\ last.rep.val[1].ino = last.req.ino
       /\ last.rep.val[1].kind = "Directory"
       /\ last.rep.val[1].name = CurrentDirName
       /\ last.rep.val[2].ino = ZffFsParentInode(zf, zc, last.req.ino)
       /\ last.rep.val[2].kind = "Directory"
       /\ last.rep.val[2].name = ParentDirName

\* the objects first listed as Encrypted that decrypt_object decrypted during new
DecryptedDuringMount(z, c) ==
    {n \in c.present : ObjectOf(c, n).listed = "Encrypted" /\ n \in z.zffreader.decrypted}

\* C6: an object first listed as Encrypted whose decrypt_object call succeeds during
\* mount is treated as a decrypted Physical or Logical object: it counts towards S, it
\* appears in readdir(1, 0) as (N+1, Directory, "object_<N>"), and if it is logical its
\* files are entered in inode_reverse_map.
C6_PostDecryptionKinds ==
    zf.phase = "mounted" =>
        \A n \in DecryptedDuringMount(zf, zc) :
            /\ zf.shift_value >= n + 1
            /\ (/\ last.req.op = "readdir"
                /\ last.req.ino = SPECIAL_INODE_ROOT_DIR
                /\ last.req.offset = 0
                /\ last.req.cap >= 2 + Cardinality(zc.present))
               => \E i \in DOMAIN last.rep.val :
                      /\ last.rep.val[i].ino = n + 1
                      /\ last.rep.val[i].kind = "Directory"
                      /\ last.rep.val[i].name = OBJECT_PATH_PREFIX \o Decimal(n)
            /\ ObjectOf(zc, n).kind = "Logical"
               => \A f \in DOMAIN ObjectOf(zc, n).files :
                      \E ino \in DOMAIN zf.inode_reverse_map : zf.inode_reverse_map[ino] = <<n, f>>

----------------------------------------------------------------------------
(* Properties of ZffOverlayFs *)

\* C5: an object that is still encrypted after mount initialization has no entry named
\* object_<N> in readdir(1, 0), lookup(1, "object_<N>") returns ENOENT for it, and no
\* inode map holds an entry for it.
C5_EncryptedInvisible ==
    ov.mounted =>
        \A n \in Undecryptable(oc) :
            /\ n \notin DOMAIN ov.objects
            /\ \A ino \in DOMAIN ov.inode_attributes_map :
                   ov.inode_attributes_map[ino].crtime # 10 + n
            /\ (last.req.op = "readdir" /\ last.req.ino = SPECIAL_INODE_ROOT_DIR
                    /\ last.req.offset = 0 /\ last.rep.kind = "dir")
               => \A i \in DOMAIN last.rep.val : last.rep.val[i].name # ObjectName(Decimal(n))
            /\ (last.req.op = "lookup" /\ last.req.ino = SPECIAL_INODE_ROOT_DIR
                    /\ last.req.name = ObjectName(Decimal(n)))
               => last.rep = ErrorReply(ENOENT)

\* a name that is the prefix "object_" followed by decimal digits only
IsObjectName(name) ==
    /\ Len(name) > Len(OBJECT_PREFIX)
    /\ SubSeq(name, 1, Len(OBJECT_PREFIX)) = OBJECT_PREFIX
    /\ \A i \in (Len(OBJECT_PREFIX) + 1)..Len(name) : name[i] \in Digits

\* C8: lookup(1, name) on the mount root returns ENOENT for every name that is not
\* exactly the prefix "object_" followed by a decimal integer: a name without the
\* prefix, a name with characters before the prefix and a name whose suffix does not
\* parse are rejected.
C8_LookupNameFormat ==
    (/\ ov.mounted
     /\ last.req.op = "lookup"
     /\ last.req.ino = SPECIAL_INODE_ROOT_DIR
     /\ ~IsObjectName(last.req.name))
    => last.rep = ErrorReply(ENOENT)


----------------------------------------------------------------------------
(* Properties of ZffPhysicalObjectFs::read *)

\* C11: read with a negative offset replies ENOENT and returns no data, for every
\* inode; the negative offset is never cast to an unsigned seek position.
C11_NegativeOffsetRejected ==
    (last.req.op = "read" /\ last.req.offset < 0 /\ ph.running)
    => last.rep = ErrorReply(ENOENT)

\* C12: whenever a reader operation (seek, read) fails while a request is served, the
\* request is answered with ENOENT and with no data; a failed seek or read never
\* produces a data reply and never terminates the process.
C12_ReaderFailureIsENOENT ==
    (last.req.op = "read" /\ ph.failed # {})
    => ph.running /\ last.rep = ErrorReply(ENOENT)


----------------------------------------------------------------------------
(* Properties of the inodes of a ZffFs *)

\* the decrypted objects of a mounted ZffFs: those the reader lists as Physical or
\* Logical and those it decrypted during new
DecryptedObjects(z, c) ==
    {n \in c.present : ObjectOf(c, n).listed # "Encrypted" \/ n \in z.zffreader.decrypted}

\* C13: after mount inode 1 denotes only the mount root, every object-root inode N+1
\* of a decrypted object N lies in [2, S], and every key of inode_reverse_map and every
\* file inode emitted by readdir is strictly greater than S, so that no inode belongs
\* to two of the classes.
C13_InodePartition ==
    zf.phase = "mounted" =>
        /\ \A n \in DecryptedObjects(zf, zc) : 2 <= n + 1 /\ n + 1 <= zf.shift_value
        /\ \A ino \in DOMAIN zf.inode_reverse_map : ino > zf.shift_value
        /\ (last.req.op = "readdir" /\ last.rep.kind = "dir")
           => \A i \in DOMAIN last.rep.val :
                  last.rep.val[i].next > 2
                  => IF last.req.ino = SPECIAL_INODE_ROOT_DIR
                     THEN last.rep.val[i].ino \in 2..zf.shift_value
                     ELSE last.rep.val[i].ino > zf.shift_value


\* the logical objects whose files new enters in inode_reverse_map
ObjectsWithFiles(z) == {n \in DOMAIN z.object_list : z.object_list[n] = "Logical"}

\* first_chunk_numbers are pairwise distinct across all files of all objects
DistinctFirstChunkNumbers(c) ==
    \A n, m \in c.present :
        \A f \in DOMAIN ObjectOf(c, n).files, g \in DOMAIN ObjectOf(c, m).files :
            ObjectOf(c, n).files[f].first_chunk_number = ObjectOf(c, m).files[g].first_chunk_number
            => n = m /\ f = g

\* the decrypted logical objects of a mounted ZffFs
DecryptedLogicalObjects(z, c) ==
    {n \in DecryptedObjects(z, c) : ObjectOf(c, n).kind = "Logical"}

\* C14: if first_chunk_numbers are pairwise distinct, inode_reverse_map holds after
\* mount exactly one entry per file of every decrypted logical object, no insertion
\* overwrites an earlier one, and the count inode_reverse_map_add_object returns is the
\* number of keys it added.
C14_OneEntryPerFile ==
    (zf.phase = "mounted" /\ DistinctFirstChunkNumbers(zc)) =>
        /\ \A n \in DecryptedLogicalObjects(zf, zc) :
               LET one == InodeReverseMapAddObject(zf.zffreader, zc, n, zf.shift_value, 1) IN
               /\ one.ok
               /\ one.counter = Cardinality({e[1] : e \in one.added})
               /\ \A f \in DOMAIN ObjectOf(zc, n).files :
                      Cardinality({ino \in DOMAIN zf.inode_reverse_map :
                                       zf.inode_reverse_map[ino] = <<n, f>>}) = 1
        /\ \A ino \in DOMAIN zf.inode_reverse_map :
               /\ zf.inode_reverse_map[ino][1] \in DecryptedLogicalObjects(zf, zc)
               /\ zf.inode_reverse_map[ino][2]
                      \in DOMAIN ObjectOf(zc, zf.inode_reverse_map[ino][1]).files


\* C15: the shift S fixed at mount is the largest number of a decrypted object plus
\* 1, and 1 when there is no such object; with no objects readdir(1, 0) yields exactly
\* (1, Directory, ".") and (1, Directory, "..").
C15_ShiftValue ==
    zf.phase = "mounted" =>
        /\ DecryptedObjects(zf, zc) = {} => zf.shift_value = 1
        /\ DecryptedObjects(zf, zc) # {} =>
               /\ zf.shift_value - 1 \in DecryptedObjects(zf, zc)
               /\ \A n \in DecryptedObjects(zf, zc) : n <= zf.shift_value - 1
        /\ (/\ zc.present = {}
            /\ last.req.op = "readdir"
            /\ last.req.ino = SPECIAL_INODE_ROOT_DIR
            /\ last.req.offset = 0
            /\ last.req.cap >= 2)
           => last.rep = DirReply(
                  <<[ino |-> 1, kind |-> "Directory", name |-> CurrentDirName, next |-> 1],
                    [ino |-> 1, kind |-> "Directory", name |-> ParentDirName, next |-> 2]>>)


\* C16: readdir(N+1, 0) on the root of a decrypted physical object N yields exactly
\* (N+1, Directory, "."), (1, Directory, "..") and
\* (first_chunk_number(N) + S, RegularFile, "zff_image.dd"), in this order; the object
\* activated to read the footer is N itself.
C16_PhysicalObjectRoot ==
    (/\ zf.phase = "mounted"
     /\ last.req.op = "readdir"
     /\ last.req.offset = 0
     /\ last.req.cap >= 3
     /\ (last.req.ino - 1) \in DecryptedObjects(zf, zc)
     /\ ObjectOf(zc, last.req.ino - 1).kind = "Physical")
    => /\ last.rep = DirReply(
              <<[ino |-> last.req.ino, kind |-> "Directory", name |-> CurrentDirName, next |-> 1],
                [ino |-> 1, kind |-> "Directory", name |-> ParentDirName, next |-> 2],
                [ino |-> ObjectOf(zc, last.req.ino - 1).first_chunk_number + zf.shift_value,
                 kind |-> "RegularFile", name |-> ZFF_PHYSICAL_OBJECT_NAME, next |-> 3]>>)
       /\ zf.zffreader.active_object = last.req.ino - 1


----------------------------------------------------------------------------
(* Properties of ZffOverlayFs::getattr *)

\* C17: getattr(inode) returns the record stored for inode in inode_attributes_map
\* when there is one; when there is none it returns the synthetic root attributes if
\* inode = 1 and ENOENT for every other inode.
C17_OverlayGetattr ==
    (ov.mounted /\ last.req.op = "getattr") =>
        /\ last.req.ino \in DOMAIN ov.inode_attributes_map
           => last.rep.kind = "attr" /\ last.rep.val = ov.inode_attributes_map[last.req.ino]
        /\ (last.req.ino \notin DOMAIN ov.inode_attributes_map /\ last.req.ino = 1)
           => last.rep.kind = "attr" /\ last.rep.val = DEFAULT_ROOT_DIR_ATTR
        /\ (last.req.ino \notin DOMAIN ov.inode_attributes_map /\ last.req.ino # 1)
           => last.rep.kind = "error" /\ last.rep.val = ENOENT

\* the attributes of the root were asked of an overlay that holds two objects
C17_Witness ==
    /\ ov.mounted
    /\ Cardinality(DOMAIN ov.inode_attributes_map) = 2
    /\ last.req.op = "getattr" /\ last.req.ino = 1
    /\ last.rep.kind = "attr" /\ last.rep.val.ino = 1


----------------------------------------------------------------------------
(* Properties of hardlinks and of physical objects in a ZffFs *)

\* the file a hardlink of a logical object names in its payload
ZffTargetOf(c, n, f) == LeValue(ObjectOf(c, n).files[f].content, 1)

ZffHardlinks(c, n) ==
    {f \in DOMAIN ObjectOf(c, n).files : ObjectOf(c, n).files[f].file_type = "Hardlink"}

\* the file numbers whose entries follow the dot entries of a directory inode
ZffChildrenOf(z, c, ino) ==
    IF ino <= z.shift_value THEN ObjectOf(c, ino - 1).root_dir_filenumbers
    ELSE DecodeVecU64(ObjectOf(c, z.inode_reverse_map[ino][1])
                          .files[z.inode_reverse_map[ino][2]].content).value

\* C18: for every hardlink H with target T in a logical object, the inode under which
\* mount registers H in inode_reverse_map and the inode readdir emits for H's entry are
\* both first_chunk_number(T) + S.
C18_HardlinkInode ==
    zf.phase = "mounted" =>
        \A n \in ObjectsWithFiles(zf) : \A h \in ZffHardlinks(zc, n) :
            LET target == ObjectOf(zc, n).files[ZffTargetOf(zc, n, h)]
                inode == target.first_chunk_number + zf.shift_value
            IN /\ \A ino \in DOMAIN zf.inode_reverse_map :
                      zf.inode_reverse_map[ino] = <<n, h>> => ino = inode
               /\ (last.req.op = "readdir" /\ last.req.ino = n + 1 /\ last.rep.kind = "dir")
                  => \A i \in DOMAIN last.rep.val :
                         (/\ last.rep.val[i].next > 2
                          /\ ZffChildrenOf(zf, zc, n + 1)[last.rep.val[i].next - 2] = h)
                         => last.rep.val[i].ino = inode

\* C19: the readdir entry of a child that is a hardlink carries the hardlink's own
\* filename, together with the inode and the kind of the target.
C19_HardlinkEntryName ==
    (/\ zf.phase = "mounted"
     /\ last.req.op = "readdir"
     /\ last.rep.kind = "dir"
     /\ last.req.ino # SPECIAL_INODE_ROOT_DIR
     /\ last.req.ino <= zf.shift_value
     /\ zf.object_list[last.req.ino - 1] = "Logical")
    => \A i \in DOMAIN last.rep.val :
           LET n == last.req.ino - 1
               child == ZffChildrenOf(zf, zc, last.req.ino)[last.rep.val[i].next - 2]
               files == ObjectOf(zc, n).files
           IN (last.rep.val[i].next > 2 /\ files[child].file_type = "Hardlink")
              => /\ last.rep.val[i].name = files[child].filename
                 /\ last.rep.val[i].ino
                        = files[ZffTargetOf(zc, n, child)].first_chunk_number + zf.shift_value
                 /\ last.rep.val[i].kind
                        = ConvertFiletype(files[ZffTargetOf(zc, n, child)].file_type)

\* C20: after mount, for every physical object N, inode_reverse_map maps the inode of
\* its data file, first_chunk_number(N) + S, to (N, 0).
C20_PhysicalDataFileMapped ==
    zf.phase = "mounted" =>
        \A n \in DOMAIN zf.object_list :
            zf.object_list[n] = "Physical" =>
                /\ ObjectOf(zc, n).first_chunk_number + zf.shift_value
                       \in DOMAIN zf.inode_reverse_map
                /\ zf.inode_reverse_map[ObjectOf(zc, n).first_chunk_number + zf.shift_value]
                       = <<n, 0>>


----------------------------------------------------------------------------
(* Properties of the requests to a mounted ZffFs *)

\* the ZffFs with every file of its reader back at byte 0
ZffFsRewound(z) ==
    [z EXCEPT !.zffreader.pos = [k \in DOMAIN z.zffreader.pos |-> 0]]

\* the call that has just been served resumes the one before it: the same directory,
\* at the next offset of the last entry the earlier call delivered
ZffFsResumed ==
    /\ last.req.op = "readdir" /\ last'.req.op = "readdir"
    /\ last'.req.ino = last.req.ino
    /\ last.rep.kind = "dir" /\ last.rep.val # <<>>
    /\ last'.req.offset = last.rep.val[Len(last.rep.val)].next

\* C21: a readdir(D, offset) with 0 <= offset on a directory whose list has n entries
\* skips the first offset entries, offers entry i (0-based) with the next offset i + 1,
\* and stops at the first entry the kernel buffer rejects; with offset >= n it succeeds
\* with no entries.  A call resumed at the next offset of the last entry accepted goes
\* on in the list of the directory where the earlier call stopped, so that the series
\* delivers every entry once and in list order.
C21_ReaddirPagination ==
    [][/\ (zf.phase = "mounted" /\ ZffFsEntries(zf, zc, last'.req.ino).ok)
          => LET entries == ZffFsEntries(zf, zc, last'.req.ino).entries
                 offset == last'.req.offset
                 n == Len(entries)
                 accepted == IF offset >= n THEN 0 ELSE Min(last'.req.cap, n - offset)
             IN /\ last'.rep.kind = "dir"
                /\ Len(last'.rep.val) = accepted
                /\ \A j \in 1..accepted :
                       LET i == offset + j - 1 IN
                       /\ last'.rep.val[j].ino = entries[i + 1].ino
                       /\ last'.rep.val[j].kind = entries[i + 1].kind
                       /\ last'.rep.val[j].name = entries[i + 1].name
                       /\ last'.rep.val[j].next = i + 1
       /\ (/\ zf.phase = "mounted"
           /\ ZffFsResumed
           /\ ZffFsEntries(ZffFsRewound(zf), zc, last'.req.ino).ok)
          => last'.rep = DirReply(AddEntries(
                 ZffFsEntries(ZffFsRewound(zf), zc, last'.req.ino).entries,
                 last'.req.offset, last'.req.cap))]_vars


\* C22: the entry list readdir(D, 0) builds depends only on D and the container, not on
\* the reader cursor earlier requests left: every directory, hardlink and special-file
\* payload is read from byte 0, so the reply is the one a rewound reader gives.
C22_ListIndependentOfCursor ==
    (zf.phase = "mounted" /\ last.req.op = "readdir" /\ last.req.offset = 0)
    => last.rep = ZffFsReaddir(ZffFsRewound(zf), zc, last.req.ino, 0, last.req.cap).reply


\* C23: no request changes the projection built at mount: every readdir, successful or
\* failing, leaves object_list, inode_reverse_map and shift_value unchanged; only the
\* reader's cursor may change.
C23_ProjectionUnchanged ==
    [][zf.phase = "mounted"
       => /\ zf'.object_list = zf.object_list
          /\ zf'.inode_reverse_map = zf.inode_reverse_map
          /\ zf'.shift_value = zf.shift_value
          /\ zf'.zffreader.decrypted = zf.zffreader.decrypted]_vars

C23_Witness ==
    /\ zf.phase = "mounted"
    /\ last.req.op = "readdir" /\ last.req.ino = 2
    /\ last.rep.kind = "error"
    /\ <<1, 4>> \in DOMAIN zf.zffreader.pos
    /\ zf.zffreader.pos[<<1, 4>>] = 8
    /\ DOMAIN zf.inode_reverse_map = {7, 9, 11, 13}
    /\ 2 \in zf.zffreader.decrypted


----------------------------------------------------------------------------
(* Properties of ZffFs::new *)

\* the objects listed as Encrypted that are still encrypted after new
StillEncrypted(z, c) ==
    {n \in c.present : ObjectOf(c, n).listed = "Encrypted" /\ n \notin z.zffreader.decrypted}

\* C24: a decrypt_object failure for an encrypted object never aborts the mount:
\* initialization goes on to the remaining objects, and the failed object stays
\* Encrypted and is omitted from the root listing and from inode_reverse_map.
C24_DecryptFailureSkipsObject ==
    (zf.phase # "start" /\ zc.fault = "none")
    => /\ zf.phase # "exited"
       /\ \A n \in StillEncrypted(zf, zc) :
              /\ zc.present \subseteq zf.zffreader.initialized
              /\ zf.object_list[n] = "Encrypted"
              /\ \A i \in DOMAIN ZffFsRootEntries(zf) : ZffFsRootEntries(zf)[i].ino # n + 1
              /\ \A ino \in DOMAIN zf.inode_reverse_map : zf.inode_reverse_map[ino][1] # n
              /\ (last.req.op = "readdir" /\ last.req.ino = SPECIAL_INODE_ROOT_DIR)
                 => \A i \in DOMAIN last.rep.val :
                        last.rep.val[i].name # OBJECT_PATH_PREFIX \o Decimal(n)

C24_Witness ==
    /\ zf.phase = "mounted"
    /\ zc.present = {1, 2, 3} /\ zc.enc_kind = "Logical" /\ zc.passwords = {<<2, "bad">>}
    /\ StillEncrypted(zf, zc) = {2}
    /\ 3 \in zf.zffreader.initialized
    /\ last.req.op = "readdir" /\ last.req.ino = SPECIAL_INODE_ROOT_DIR
    /\ last.req.offset = 2 /\ Len(last.rep.val) = 2

\* C25: every failure during mount other than the decryption of an encrypted object
\* (creating the reader, list_objects, initialize_object of any object, filling
\* inode_reverse_map) ends the process before any request is served.
C25_MountFailureExits ==
    zc.fault # "none" => zf.phase # "mounted"

\* the positions in the trace of new of the calls of one kind for one object
CallsOf(z, call, n) ==
    {i \in DOMAIN z.zffreader.trace :
        z.zffreader.trace[i].call = call /\ z.zffreader.trace[i].object = n}

\* C26: during mount initialize_object is requested exactly once for every listed
\* object; for every object listed as Encrypted decrypt_object is called exactly once,
\* after that object's initialize_object, with the password mapped to the object or
\* else the result of a single prompt; it is never called for an object listed as
\* Physical or Logical.
C26_MountCalls ==
    zf.phase = "mounted" =>
        \A n \in DOMAIN zf.object_list :
            LET trace == zf.zffreader.trace
                initialize == CallsOf(zf, "initialize_object", n)
                decrypt == CallsOf(zf, "decrypt_object", n)
                prompt == CallsOf(zf, "enter_password_dialog", n)
                mapped == {p \in zc.passwords : p[1] = n}
            IN /\ Cardinality(initialize) = 1
               /\ zf.object_list[n] # "Encrypted" => decrypt = {} /\ prompt = {}
               /\ zf.object_list[n] = "Encrypted" =>
                      /\ Cardinality(decrypt) = 1
                      /\ \A i \in initialize, j \in decrypt : i < j
                      /\ mapped # {} =>
                             /\ prompt = {}
                             /\ \A j \in decrypt, p \in mapped : trace[j].password = p[2]
                      /\ mapped = {} =>
                             /\ Cardinality(prompt) = 1
                             /\ \A i \in prompt, j \in decrypt :
                                    i < j /\ trace[j].password = trace[i].password

C26_Witness ==
    /\ zf.phase = "mounted"
    /\ zc.present = {1, 2, 3} /\ zc.passwords = {}
    /\ Len(zf.zffreader.trace) = 5
    /\ zf.zffreader.trace[3] = Call("enter_password_dialog", 2, "")
    /\ zf.zffreader.trace[4] = Call("decrypt_object", 2, "")
    /\ zf.zffreader.trace[5] = Call("initialize_object", 3, "")


----------------------------------------------------------------------------
(* Properties of special files in a ZffFs *)

\* the inode of the directory "s" of object 1, which holds the special file "p"
InodeOfSpecialFileDirectory(z, c) == ObjectOf(c, 1).files[2].first_chunk_number + z.shift_value

----------------------------------------------------------------------------
(* Properties of the replies of ZffFs::readdir *)

\* C28: every readdir request is answered exactly once, by an error reply ENOENT sent
\* before any entry was added or by an ok reply after the entries were added; no path
\* returns without replying.
C28_ReaddirReplied ==
    last.req.op = "readdir"
    => \/ last.rep = ErrorReply(ENOENT)
       \/ last.rep.kind = "dir"


\* C29: readdir(ino, offset) for an inode in the range 2 <= ino <= S of the object
\* roots whose object number ino - 1 is not in object_list, or is there as Encrypted,
\* replies ENOENT and emits no entries.
C29_UnlistedObjectRoot ==
    (/\ zf.phase = "mounted"
     /\ last.req.op = "readdir"
     /\ 2 <= last.req.ino /\ last.req.ino <= zf.shift_value
     /\ \/ (last.req.ino - 1) \notin DOMAIN zf.object_list
        \/ zf.object_list[last.req.ino - 1] = "Encrypted")
    => last.rep = ErrorReply(ENOENT)

\* the root of object 2, which the reader has decrypted and the list has as Encrypted,
\* was asked for
C29_Witness ==
    /\ zf.phase = "mounted"
    /\ zc.present = {2, 3}
    /\ 2 \in zf.zffreader.decrypted
    /\ zf.zffreader.active_object = 2
    /\ last.req.op = "readdir" /\ last.req.ino = 3
    /\ last.rep = ErrorReply(ENOENT)

----------------------------------------------------------------------------
(* The sessions of main *)

\* C30: the sessions main spawns share no reader.  The overlay filesystem holds no
\* reader, two object sessions never hold the same reader, and the position at which
\* the read of a session is about to read is the one the seek of this very request
\* set, whatever the other sessions did in between; a session has taken at most the
\* one request it is serving.
C30_SessionsShareNoReader ==
    mn.phase = "running" =>
        /\ "zffreader" \notin DOMAIN ov
        /\ \A a, b \in DOMAIN mn.fs : a # b => mn.fs[a].zffreader # mn.fs[b].zffreader
        /\ \A n \in DOMAIN mn.fs :
              /\ mn.fs[n].zffreader \in DOMAIN mn.readers
              /\ mn.readers[mn.fs[n].zffreader].image = MainImage(n)
              /\ mn.fs[n].pc = "sought" =>
                    /\ mn.fs[n].req.op = "read"
                    /\ mn.readers[mn.fs[n].zffreader].pos = OffsetAsU64(mn.fs[n].req.offset)

\* object 8 sought to offset 1 and read a byte after object 7 had sought to offset 0,
\* and the read of object 7 is still to come
C30_Witness ==
    /\ mn.phase = "running"
    /\ DOMAIN mn.fs = {7, 8}
    /\ mn.fs[7].pc = "sought" /\ mn.fs[7].req.offset = 0
    /\ mn.fs[8].pc = "idle" /\ mn.fs[8].req.offset = 1
    /\ mn.fs[8].rep = DataReply(<<MainImage(8)[2]>>)
    /\ mn.readers[mn.fs[8].zffreader].pos = 2
    /\ mn.readers[mn.fs[7].zffreader].pos = 0

====
